---- MODULE Spec2Model ----
(***************************************************************************)
(* Model of the blockchain_ledger service: the hash-chain ledger file,     *)
(* the manufacturer and common ledgers, the Ledger Manager operations and  *)
(* the external store they write to.                                       *)
(*                                                                         *)
(* SHA-256 is modelled as an injective function: a digest is the record of *)
(* the strings that were concatenated into it.  time.Now() is the variable *)
(* now, in seconds (the resolution of time.RFC3339).  uuid.New() is the    *)
(* counter uuid.                                                           *)
(***************************************************************************)
EXTENDS Integers, Sequences, FiniteSets, TLC

VARIABLES
    now,        \* wall clock, seconds
    uuid,       \* number of uuids drawn so far
    chain,      \* blockchain_data/blockchain_ledger.json
    mledgers,   \* blockchain_data/manufacturer_ledgers/<id>.json
    common,     \* blockchain_data/common_ledger.json
    store,      \* the external relational store (Supabase tables)
    records,    \* data_records/*.json written by the chain append
    last,       \* the last completed operation and what it returned
    pc,         \* position of each concurrent appender
    local,      \* what each concurrent appender holds between its read and its write
    tampered,   \* the chain file was edited from outside the service
    sync,       \* SyncService: SyncStatusMap, LastSyncTime and the files in sync_logs
    hook        \* WebhookHandler: Secret and the TransactionTracker

vars == <<now, uuid, chain, mledgers, common, store, records, last, pc, local, tampered,
          sync, hook>>

\* ---------------------------------------------------------------- bounds
MaxTime == 1
MaxAppends == 3
MaxOps == 3
MaxTamper == 1

\* ------------------------------------------------------------ identifiers
DrugIDs == {"D1"}
ShipmentIDs == {"S1"}
ManufacturerIDs == {"M1", "M2"}
ShipmentStatuses == {"delivered", "in_transit"}
Reasons == {"recall"}
Procs == {"p1", "p2"}

\* ------------------------------------------------------------------ hashes
\* the empty string, where a hash is expected
NoHash == [empty |-> TRUE]

GenerateTransactionHash_noUuid(data, u, t) == [uuid |-> 0, ts |-> t, data |-> data]

\* sha256(uuid || RFC3339Nano timestamp || json(data))
GenerateTransactionHash(data, u, t) == [uuid |-> u, ts |-> t, data |-> data]

CalculateHash_ignoreTime(timestamp, data, previousHash) ==
    [timestamp |-> 0, data |-> data, previous_hash |-> previousHash]

\* sha256(tx.Timestamp || json(tx.Data) || tx.PreviousHash)
CalculateHash(timestamp, data, previousHash) ==
    [timestamp |-> timestamp, data |-> data, previous_hash |-> previousHash]

\* a transaction stamped with the current time, previous hash empty
NewTransaction(data, t) ==
    [timestamp |-> t, data |-> data, previous_hash |-> NoHash,
     hash |-> CalculateHash(t, data, NoHash)]

SetPreviousHash(tx, previousHash) ==
    [tx EXCEPT !.previous_hash = previousHash,
               !.hash = CalculateHash(tx.timestamp, tx.data, previousHash)]

\* recomputes the hash of txData at time t and compares it with txHash
ValidateTransaction(txHash, txData, t) ==
    LET tx  == NewTransaction(txData, t)
        tx2 == IF "previous_hash" \in DOMAIN txData
               THEN SetPreviousHash(tx, txData.previous_hash)
               ELSE tx
    IN  tx2.hash = txHash

\* sha256(drugID:manufacturerID:timestamp)
generateVerificationHash(drugID, manufacturerID, timestamp) ==
    [vdrug |-> drugID, vmanufacturer |-> manufacturerID, vtimestamp |-> timestamp]

\* ------------------------------------------------------- map[string]any
\* m with key k set to v
Put(m, k, v) == [x \in (DOMAIN m) \cup {k} |-> IF x = k THEN v ELSE m[x]]

\* ------------------------------------------------------------ chain file
EmptyChain == [blocks |-> <<>>, last_updated |-> 0, block_height |-> 0]

AppendBlock_keepHeight(ledger, txData, txHash, t) ==
    [blocks |-> Append(ledger.blocks,
                  [block_height |-> ledger.block_height + 1,
                   tx_hash |-> txHash, tx_data |-> txData, timestamp |-> t,
                   previous_block_hash |->
                       IF Len(ledger.blocks) > 0
                       THEN ledger.blocks[Len(ledger.blocks)].tx_hash ELSE NoHash]),
     last_updated |-> t,
     block_height |-> ledger.block_height]

AppendBlock_noLink(ledger, txData, txHash, t) ==
    [blocks |-> Append(ledger.blocks,
                  [block_height |-> ledger.block_height + 1,
                   tx_hash |-> txHash, tx_data |-> txData, timestamp |-> t,
                   previous_block_hash |-> NoHash]),
     last_updated |-> t,
     block_height |-> ledger.block_height + 1]

\* the ledger AddTransactionToBlockchain writes back, given the ledger it read
AppendBlock(ledger, txData, txHash, t) ==
    [blocks |-> Append(ledger.blocks,
                  [block_height |-> ledger.block_height + 1,
                   tx_hash |-> txHash, tx_data |-> txData, timestamp |-> t,
                   previous_block_hash |->
                       IF Len(ledger.blocks) > 0
                       THEN ledger.blocks[Len(ledger.blocks)].tx_hash ELSE NoHash]),
     last_updated |-> t,
     block_height |-> ledger.block_height + 1]

\* ------------------------------------------------------- external store
\* a table is a function from the identifier of a row to the row; which
\* column of the table carries the identifier is left to the schema
\* no row under that key
NoRow == [absent |-> TRUE]

EmptyStore ==
    [drugs |-> [d \in DrugIDs |-> NoRow],
     shipments |-> [s \in ShipmentIDs |-> NoRow],
     drug_status_updates |-> <<>>,
     shipment_status_updates |-> <<>>,
     blockchain_ledger |-> <<>>]

\* Supabase.Update(table, id, patch): patches the row if there is one; no row
\* is not an error
Update(table, id, patch) ==
    IF table[id] = NoRow THEN table
    ELSE [table EXCEPT ![id] =
            [k \in (DOMAIN @) \cup (DOMAIN patch) |->
                IF k \in DOMAIN patch THEN patch[k] ELSE @[k]]]

\* ------------------------------------------------------------- data_records
\* os.WriteFile: creates or replaces the file of that name
WriteFile(files, name, content) ==
    {f \in files : f.name # name} \cup {[name |-> name, content |-> content]}

\* --------------------------------------------------------------- ledgers
\* reverted_at omitted
NoTime == -1

EmptyLedger == [drugs |-> <<>>, shipments |-> <<>>, last_updated |-> 0]

Status(status, timestamp, details) ==
    [status |-> status, timestamp |-> timestamp, details |-> details]

DrugRecord(drugID, timestamp) ==
    [drug_id |-> drugID, status |-> "created", created_at |-> timestamp,
     reverted_at |-> NoTime, current_status |-> "created",
     history |-> <<Status("created", timestamp, <<"Drug created">>)>>]

CommonDrugRecord(drugID, manufacturerID, timestamp, verificationHash) ==
    [drug_id |-> drugID, manufacturer_id |-> manufacturerID, status |-> "created",
     created_at |-> timestamp, current_status |-> "created",
     history |-> <<Status("created", timestamp, <<"Drug created">>)>>,
     verification_hash |-> verificationHash]

ShipmentRecord(shipmentID, drugID, timestamp) ==
    [shipment_id |-> shipmentID, drug_id |-> drugID, status |-> "created",
     created_at |-> timestamp, current_status |-> "created",
     history |-> <<Status("created", timestamp, <<"Shipment created">>)>>]

CommonShipmentRecord(shipmentID, drugID, manufacturerID, distributorID, timestamp) ==
    [shipment_id |-> shipmentID, drug_id |-> drugID,
     manufacturer_id |-> manufacturerID, distributor_id |-> distributorID,
     status |-> "created", created_at |-> timestamp, current_status |-> "created",
     history |-> <<Status("created", timestamp, <<"Shipment created">>)>>]

\* index of the first record with that drug_id, 0 if there is none
\* (for i, d := range Drugs { if d.DrugID == id { ...; break } })
FindDrug(drugs, drugID) ==
    IF \E i \in 1..Len(drugs) : drugs[i].drug_id = drugID
    THEN CHOOSE i \in 1..Len(drugs) :
            /\ drugs[i].drug_id = drugID
            /\ \A j \in 1..(i - 1) : drugs[j].drug_id # drugID
    ELSE 0

FindShipment(shipments, shipmentID) ==
    IF \E i \in 1..Len(shipments) : shipments[i].shipment_id = shipmentID
    THEN CHOOSE i \in 1..Len(shipments) :
            /\ shipments[i].shipment_id = shipmentID
            /\ \A j \in 1..(i - 1) : shipments[j].shipment_id # shipmentID
    ELSE 0

\* ------------------------------------- AddTransactionToBlockchain, the tail
\* what the append does after the chain file is written; up: the store
\* answers the calls of this append
StoreAfterAppend(st, txData, txHash, height, up) ==
    IF ~up THEN st
    ELSE LET st1 == [st EXCEPT !.blockchain_ledger =
                        Append(@, [tx_hash |-> txHash, block_height |-> height])]
         IN  IF "drug_id" \in DOMAIN txData
             THEN [st1 EXCEPT !.drugs =
                      Update(@, txData.drug_id, [blockchain_tx_id |-> txHash])]
             ELSE IF "shipment_id" \in DOMAIN txData
             THEN [st1 EXCEPT !.shipments =
                      Update(@, txData.shipment_id, [blockchain_tx_id |-> txHash])]
             ELSE st1

RecordsAfterAppend(files, txData, txHash, up) ==
    IF ~up THEN files
    ELSE IF "drug_id" \in DOMAIN txData
    THEN WriteFile(files, <<"drug", txData.drug_id>>,
                   Put(txData, "blockchain_tx_id", txHash))
    ELSE IF "shipment_id" \in DOMAIN txData
    THEN WriteFile(files, <<"shipment", txData.shipment_id>>,
                   Put(txData, "blockchain_tx_id", txHash))
    ELSE files

\* a record carrying "manufacturer" (a row of the drugs table) is also
\* entered in that manufacturer's ledger and in the common ledger
AddsToLedgers(txData, up) ==
    up /\ "drug_id" \in DOMAIN txData /\ "manufacturer" \in DOMAIN txData

MLedgersAfterAppend(ml, txData, t, up) ==
    IF AddsToLedgers(txData, up)
    THEN [ml EXCEPT ![txData.manufacturer] =
            [@ EXCEPT !.drugs = Append(@, DrugRecord(txData.drug_id, t)),
                      !.last_updated = t]]
    ELSE ml

CommonAfterAppend(cl, txData, txHash, t, up) ==
    IF AddsToLedgers(txData, up)
    THEN [cl EXCEPT !.drugs = Append(@, CommonDrugRecord(txData.drug_id,
                                           txData.manufacturer, t, txHash)),
                    !.last_updated = t]
    ELSE cl

\* ------------------------------------------------------ CreateTransaction
\* the data CreateTransaction hands to the append, and its hash
TxInput(txType, data, t) == Put(Put(data, "tx_type", txType), "timestamp", t)
TxHashOf(txType, data, u, t) == GenerateTransactionHash(TxInput(txType, data, t), u, t)
TxDataOf(txType, data, u, t) ==
    Put(TxInput(txType, data, t), "tx_hash", TxHashOf(txType, data, u, t))

\* ------------------------------------------------------- consistency check
NoError == [consistent |-> TRUE, err |-> "", index |-> 0]

RECURSIVE checkFrom_skipHash(_, _)
checkFrom_skipHash(blocks, i) ==
    IF i >= Len(blocks) THEN NoError
    ELSE IF blocks[i + 1].block_height # blocks[i].block_height + 1
    THEN [consistent |-> FALSE, err |-> "block height sequence broken", index |-> i]
    ELSE checkFrom_skipHash(blocks, i + 1)

\* the loop of checkConsistency; i is the Go index of currentBlock, which is
\* blocks[i + 1] here
RECURSIVE checkFrom(_, _)
checkFrom(blocks, i) ==
    IF i >= Len(blocks) THEN NoError
    ELSE IF blocks[i + 1].block_height # blocks[i].block_height + 1
    THEN [consistent |-> FALSE, err |-> "block height sequence broken", index |-> i]
    ELSE IF blocks[i + 1].previous_block_hash # blocks[i].tx_hash
    THEN [consistent |-> FALSE, err |-> "previous block hash mismatch", index |-> i]
    ELSE checkFrom(blocks, i + 1)

checkConsistency(ledger) ==
    IF Len(ledger.blocks) = 0 THEN NoError ELSE checkFrom(ledger.blocks, 1)

\* the report of RunConsistencyCheck; dbUp: the store answers the probe
ConsistencyCheckResult(ledger, dbUp) ==
    LET r == checkConsistency(ledger)
    IN  IF ~dbUp
        THEN [status |-> "failed", error |-> "Database connection failed",
              index |-> 0, recommendation |-> ""]
        ELSE IF r.err # ""
        THEN [status |-> "error", error |-> r.err, index |-> r.index,
              recommendation |-> ""]
        ELSE IF r.consistent
        THEN [status |-> "consistent", error |-> "", index |-> 0,
              recommendation |-> ""]
        ELSE [status |-> "inconsistent", error |-> "", index |-> 0,
              recommendation |-> "Run manual verification and repair process"]

\* ------------------------------------------------------------ sync service
\* the tables a sync cycle goes through, in that order
Tables == <<"drugs", "shipments">>

\* no table has been synced, LastSyncTime is the zero time; the service is
\* not running, StopChan is the channel made here, nobody holds SyncLock
\* (the task named, otherwise) and WaitGroup counts no task
NewSyncService ==
    [SyncStatusMap |-> [t \in {"drugs", "shipments"} |-> NoTime],
     LastSyncTime |-> NoTime,
     logs |-> {},
     IsRunning |-> FALSE,
     StopChan |-> "open",
     SyncLock |-> "",
     WaitGroup |-> 0]

\* -------------------------------------------------------- webhook handler
\* NewTransactionTracker on a directory without processed_transactions.json,
\* and the handler around it: ProcessedTxs is the map in memory, file the
\* hashes in processed_transactions.json
NewWebhookHandler(secret) ==
    [Secret |-> secret, ProcessedTxs |-> {}, file |-> {}]

\* ------------------------------------------------------------ initial state
NoOp == [n |-> 0, op |-> "none"]

Init ==
    /\ now = 0
    /\ uuid = 0
    /\ chain = EmptyChain
    /\ mledgers = [m \in ManufacturerIDs |-> EmptyLedger]
    /\ common = EmptyLedger
    /\ store = EmptyStore
    /\ records = {}
    /\ last = NoOp
    /\ pc = [p \in Procs |-> "idle"]
    /\ local = [p \in Procs |-> NoOp]
    /\ tampered = 0
    /\ sync = NewSyncService
    /\ hook = NewWebhookHandler("secret")

\* time passes
Tick ==
    /\ now < MaxTime
    /\ now' = now + 1
    /\ UNCHANGED <<uuid, chain, mledgers, common, store, records, last, pc, local, tampered, sync, hook>>

\* ------------------------------------------------ appends, as they interleave
\* what callers append: a row of the drugs table, a row of the shipments
\* table, a Ledger Manager drug transaction
AppendInputs ==
    {[drug_id |-> d, manufacturer |-> m] : d \in DrugIDs, m \in {"M1"}}
    \cup {[shipment_id |-> s] : s \in ShipmentIDs}
    \cup {[drug_id |-> d, manufacturer_id |-> m] : d \in DrugIDs, m \in {"M1"}}

\* CreateTransaction up to and including the read of the chain file
AppendRead(p) ==
    /\ pc[p] = "idle"
    /\ uuid < MaxAppends
    /\ \E data \in AppendInputs :
          local' = [local EXCEPT ![p] =
                      [ledger |-> chain,
                       txData |-> TxDataOf("tx", data, uuid + 1, now),
                       txHash |-> TxHashOf("tx", data, uuid + 1, now)]]
    /\ uuid' = uuid + 1
    /\ pc' = [pc EXCEPT ![p] = "read"]
    /\ UNCHANGED <<now, chain, mledgers, common, store, records, last, tampered, sync, hook>>

AppendWrite_rereads(p) ==
    /\ pc[p] = "read"
    /\ \E up \in BOOLEAN :
          LET l == local[p]
              newLedger == AppendBlock(chain, l.txData, l.txHash, now)
          IN  /\ chain' = newLedger
              /\ store' = StoreAfterAppend(store, l.txData, l.txHash,
                                           newLedger.block_height, up)
              /\ records' = RecordsAfterAppend(records, l.txData, l.txHash, up)
              /\ mledgers' = MLedgersAfterAppend(mledgers, l.txData, now, up)
              /\ common' = CommonAfterAppend(common, l.txData, l.txHash, now, up)
    /\ pc' = [pc EXCEPT ![p] = "idle"]
    /\ local' = [local EXCEPT ![p] = NoOp]
    /\ UNCHANGED <<now, uuid, last, tampered, sync, hook>>

\* the rest of AddTransactionToBlockchain: the whole-file write of the ledger
\* read earlier plus one block, then the store and ledger updates
AppendWrite(p) ==
    /\ pc[p] = "read"
    /\ \E up \in BOOLEAN :
          LET l == local[p]
              newLedger == AppendBlock(l.ledger, l.txData, l.txHash, now)
          IN  /\ chain' = newLedger
              /\ store' = StoreAfterAppend(store, l.txData, l.txHash,
                                           newLedger.block_height, up)
              /\ records' = RecordsAfterAppend(records, l.txData, l.txHash, up)
              /\ mledgers' = MLedgersAfterAppend(mledgers, l.txData, now, up)
              /\ common' = CommonAfterAppend(common, l.txData, l.txHash, now, up)
    /\ pc' = [pc EXCEPT ![p] = "idle"]
    /\ local' = [local EXCEPT ![p] = NoOp]
    /\ UNCHANGED <<now, uuid, last, tampered, sync, hook>>

\* os.WriteFile fails: the append returns the error and nothing is written
AppendWriteFails(p) ==
    /\ pc[p] = "read"
    /\ pc' = [pc EXCEPT ![p] = "idle"]
    /\ local' = [local EXCEPT ![p] = NoOp]
    /\ UNCHANGED <<now, uuid, chain, mledgers, common, store, records, last, tampered, sync, hook>>

\* POST /api/blockchain/consistency-check
RunConsistencyCheck ==
    /\ \E dbUp \in BOOLEAN :
          last' = [n |-> 0, op |-> "RunConsistencyCheck", ledger |-> chain,
                   check |-> checkConsistency(chain),
                   result |-> ConsistencyCheckResult(chain, dbUp)]
    /\ UNCHANGED <<now, uuid, chain, mledgers, common, store, records, pc, local, tampered, sync, hook>>

NextChain ==
    \/ \E p \in Procs : AppendRead(p)
    \/ \E p \in Procs : AppendWrite(p)
    \/ \E p \in Procs : AppendWriteFails(p)

SpecChain == Init /\ [][NextChain]_vars

\* ----------------------------------------- the chain file, edited by hand
\* one call of CreateTransaction, start to end
AppendStep ==
    /\ uuid < MaxAppends
    /\ \E data \in {[shipment_id |-> s] : s \in ShipmentIDs}, up \in BOOLEAN :
          LET txData == TxDataOf("tx", data, uuid + 1, now)
              txHash == TxHashOf("tx", data, uuid + 1, now)
              newLedger == AppendBlock(chain, txData, txHash, now)
          IN  /\ chain' = newLedger
              /\ store' = StoreAfterAppend(store, txData, txHash,
                                           newLedger.block_height, up)
              /\ records' = RecordsAfterAppend(records, txData, txHash, up)
              /\ mledgers' = MLedgersAfterAppend(mledgers, txData, now, up)
              /\ common' = CommonAfterAppend(common, txData, txHash, now, up)
    /\ uuid' = uuid + 1
    /\ UNCHANGED <<now, last, pc, local, tampered, sync, hook>>

HashesInChain == {chain.blocks[i].tx_hash : i \in 1..Len(chain.blocks)} \cup {NoHash}

\* somebody rewrites a field of a stored block
TamperHeight ==
    /\ tampered < MaxTamper
    /\ \E i \in 1..Len(chain.blocks), h \in 1..(MaxAppends + 1) :
          /\ h # chain.blocks[i].block_height
          /\ chain' = [chain EXCEPT !.blocks[i].block_height = h]
    /\ tampered' = tampered + 1
    /\ UNCHANGED <<now, uuid, mledgers, common, store, records, last, pc, local, sync, hook>>

TamperHash ==
    /\ tampered < MaxTamper
    /\ \E i \in 1..Len(chain.blocks), h \in HashesInChain :
          /\ h # chain.blocks[i].previous_block_hash
          /\ chain' = [chain EXCEPT !.blocks[i].previous_block_hash = h]
    /\ tampered' = tampered + 1
    /\ UNCHANGED <<now, uuid, mledgers, common, store, records, last, pc, local, sync, hook>>

NextCheck ==
    \/ AppendStep
    \/ TamperHeight
    \/ TamperHash
    \/ RunConsistencyCheck

SpecCheck == Init /\ [][NextCheck]_vars

\* ----------------------------------------------------------- Ledger Manager
UserIDs == {"U1"}
DistributorIDs == {"X1"}

\* what one manager operation reads and writes
MgrState ==
    [chain |-> chain, mledgers |-> mledgers, common |-> common,
     store |-> store, records |-> records, uuid |-> uuid]

\* BlockchainService.CreateTransaction on state s: the block is appended and
\* the tail of the append runs; up: the store answers the tail's calls
CreateTransaction(s, txType, data, t, up) ==
    LET txData == TxDataOf(txType, data, s.uuid + 1, t)
        txHash == TxHashOf(txType, data, s.uuid + 1, t)
        newLedger == AppendBlock(s.chain, txData, txHash, t)
    IN  [chain |-> newLedger,
         mledgers |-> MLedgersAfterAppend(s.mledgers, txData, t, up),
         common |-> CommonAfterAppend(s.common, txData, txHash, t, up),
         store |-> StoreAfterAppend(s.store, txData, txHash, newLedger.block_height, up),
         records |-> RecordsAfterAppend(s.records, txData, txHash, up),
         uuid |-> s.uuid + 1]

RecordDrugStatusUpdate(s, drugID, status, updatedBy, t, up) ==
    CreateTransaction(s, "drug_update",
        [drug_id |-> drugID, status |-> status, updated_by |-> updatedBy,
         updated_at |-> t], t, up)

\* Supabase.Insert of a keyed row: the key is the primary key of the table
CanInsert(table, id) == table[id] = NoRow

SetDrugStatus_replaceHistory(drugs, drugID, status, timestamp, details) ==
    LET i == FindDrug(drugs, drugID)
    IN  IF i = 0 THEN drugs
        ELSE [drugs EXCEPT ![i].status = status,
                           ![i].current_status = status,
                           ![i].history = <<Status(status, timestamp, details)>>]

\* for i, drug := range Drugs { if drug.DrugID == id { set status, append to
\* history; break } }: nothing happens when no record has that id
SetDrugStatus(drugs, drugID, status, timestamp, details) ==
    LET i == FindDrug(drugs, drugID)
    IN  IF i = 0 THEN drugs
        ELSE [drugs EXCEPT ![i].status = status,
                           ![i].current_status = status,
                           ![i].history = Append(@, Status(status, timestamp, details))]

SetShipmentStatus(shipments, shipmentID, status, timestamp, details) ==
    LET i == FindShipment(shipments, shipmentID)
    IN  IF i = 0 THEN shipments
        ELSE [shipments EXCEPT ![i].status = status,
                               ![i].current_status = status,
                               ![i].history = Append(@, Status(status, timestamp, details))]

\* the manufacturer ledger's record also gets reverted_at
RevertDrugRecord(drugs, drugID, timestamp, details) ==
    LET i == FindDrug(drugs, drugID)
    IN  IF i = 0 THEN drugs
        ELSE [drugs EXCEPT ![i].status = "reverted",
                           ![i].current_status = "reverted",
                           ![i].reverted_at = timestamp,
                           ![i].history = Append(@, Status("reverted", timestamp, details))]

\* Each operation below yields the states after each of its writes, in the
\* order the code makes them, the error it returns by itself after the last
\* of them (err, "" if none) and its result.

CreateDrugSteps(s0, d, m, u, t, up) ==
    LET vh == generateVerificationHash(d, m, t)
        txData == [drug_id |-> d, manufacturer_id |-> m,
                   verification_hash |-> vh, created_at |-> t]
        s1 == CreateTransaction(s0, "drug_create", txData, t, up)
        txHash == TxHashOf("drug_create", txData, s0.uuid + 1, t)
        s2 == [s1 EXCEPT !.mledgers[m] =
                  [@ EXCEPT !.drugs = Append(@, DrugRecord(d, t)),
                            !.last_updated = t]]
        s3 == [s2 EXCEPT !.common =
                  [@ EXCEPT !.drugs = Append(@, CommonDrugRecord(d, m, t, vh)),
                            !.last_updated = t]]
        s4 == [s3 EXCEPT !.store.drugs[d] =
                  [id |-> d, manufacturer_id |-> m, status |-> "created",
                   verification_hash |-> vh, blockchain_tx_id |-> txHash,
                   created_at |-> t, updated_at |-> t]]
        s5 == [s4 EXCEPT !.store.drug_status_updates =
                  Append(@, [drug_id |-> d, status |-> "created", updated_by |-> u,
                             blockchain_tx_id |-> txHash, timestamp |-> t])]
    IN  IF CanInsert(s3.store.drugs, d)
        THEN [steps |-> <<s1, s2, s3, s4, s5>>, err |-> "", result |-> vh]
        ELSE [steps |-> <<s1, s2, s3>>,
              err |-> "failed to insert drug into database", result |-> vh]

CreateShipmentSteps(s0, sid, d, m, x, u, t, up) ==
    LET txData == [shipment_id |-> sid, drug_id |-> d, manufacturer_id |-> m,
                   distributor_id |-> x, created_at |-> t]
        s1 == CreateTransaction(s0, "shipment_create", txData, t, up)
        txHash == TxHashOf("shipment_create", txData, s0.uuid + 1, t)
        s2 == [s1 EXCEPT !.mledgers[m] =
                  [@ EXCEPT !.shipments = Append(@, ShipmentRecord(sid, d, t)),
                            !.last_updated = t,
                            !.drugs = SetDrugStatus(@, d, "in_transit", t,
                                          <<"Drug added to shipment", sid>>)]]
        s3 == [s2 EXCEPT !.common =
                  [@ EXCEPT !.shipments =
                                Append(@, CommonShipmentRecord(sid, d, m, x, t)),
                            !.last_updated = t,
                            !.drugs = SetDrugStatus(@, d, "in_transit", t,
                                          <<"Drug added to shipment", sid>>)]]
        s4 == [s3 EXCEPT !.store.shipments[sid] =
                  [id |-> sid, drug_id |-> d, manufacturer_id |-> m,
                   distributor_id |-> x, status |-> "created",
                   blockchain_tx_id |-> txHash, created_at |-> t, updated_at |-> t]]
        s5 == [s4 EXCEPT !.store.shipment_status_updates =
                  Append(@, [shipment_id |-> sid, status |-> "created",
                             updated_by |-> u, blockchain_tx_id |-> txHash,
                             timestamp |-> t])]
        s6 == RecordDrugStatusUpdate(s5, d, "in_transit", u, t, up)
        drugStatusTxHash ==
            TxHashOf("drug_update",
                     [drug_id |-> d, status |-> "in_transit", updated_by |-> u,
                      updated_at |-> t], s5.uuid + 1, t)
        drug == s6.store.drugs[d]
        s7 == [s6 EXCEPT !.store.drugs =
                  Update(@, d, [drug EXCEPT !.status = "in_transit",
                                            !.blockchain_tx_id = drugStatusTxHash,
                                            !.updated_at = t])]
        s8 == [s7 EXCEPT !.store.drug_status_updates =
                  Append(@, [drug_id |-> d, status |-> "in_transit", updated_by |-> u,
                             blockchain_tx_id |-> drugStatusTxHash, timestamp |-> t])]
    IN  IF ~CanInsert(s3.store.shipments, sid)
        THEN [steps |-> <<s1, s2, s3>>,
              err |-> "failed to insert shipment into database", result |-> txHash]
        ELSE IF drug = NoRow
        THEN [steps |-> <<s1, s2, s3, s4, s5, s6>>,
              err |-> "failed to get drug from database", result |-> txHash]
        ELSE [steps |-> <<s1, s2, s3, s4, s5, s6, s7, s8>>, err |-> "",
              result |-> txHash]

UpdateShipmentStatusSteps(s0, sid, status, u, t, up) ==
    LET txData == [shipment_id |-> sid, status |-> status, updated_by |-> u,
                   updated_at |-> t]
        s1 == CreateTransaction(s0, "shipment_update", txData, t, up)
        txHash == TxHashOf("shipment_update", txData, s0.uuid + 1, t)
        shipment == s1.store.shipments[sid]
        m == shipment.manufacturer_id
        d == shipment.drug_id
        s2 == [s1 EXCEPT !.mledgers[m] =
                  [@ EXCEPT !.shipments = SetShipmentStatus(@, sid, status, t,
                                              <<"Shipment status updated to", status>>),
                            !.drugs = IF status = "delivered"
                                      THEN SetDrugStatus(@, d, "delivered", t,
                                               <<"Drug delivered via shipment", sid>>)
                                      ELSE @,
                            !.last_updated = t]]
        s3 == [s2 EXCEPT !.common =
                  [@ EXCEPT !.shipments = SetShipmentStatus(@, sid, status, t,
                                              <<"Shipment status updated to", status>>),
                            !.drugs = IF status = "delivered"
                                      THEN SetDrugStatus(@, d, "delivered", t,
                                               <<"Drug delivered via shipment", sid>>)
                                      ELSE @,
                            !.last_updated = t]]
        s4 == [s3 EXCEPT !.store.shipments =
                  Update(@, sid, [shipment EXCEPT !.status = status,
                                                  !.blockchain_tx_id = txHash,
                                                  !.updated_at = t])]
        s5 == [s4 EXCEPT !.store.shipment_status_updates =
                  Append(@, [shipment_id |-> sid, status |-> status,
                             updated_by |-> u, blockchain_tx_id |-> txHash,
                             timestamp |-> t])]
        s6 == RecordDrugStatusUpdate(s5, d, "delivered", u, t, up)
        drugStatusTxHash ==
            TxHashOf("drug_update",
                     [drug_id |-> d, status |-> "delivered", updated_by |-> u,
                      updated_at |-> t], s5.uuid + 1, t)
        drug == s6.store.drugs[d]
        s7 == [s6 EXCEPT !.store.drugs =
                  Update(@, d, [drug EXCEPT !.status = "delivered",
                                            !.blockchain_tx_id = drugStatusTxHash,
                                            !.updated_at = t])]
        s8 == [s7 EXCEPT !.store.drug_status_updates =
                  Append(@, [drug_id |-> d, status |-> "delivered", updated_by |-> u,
                             blockchain_tx_id |-> drugStatusTxHash, timestamp |-> t])]
    IN  IF shipment = NoRow
        THEN [steps |-> <<s1>>, err |-> "failed to get shipment from database",
              result |-> txHash]
        ELSE IF status # "delivered"
        THEN [steps |-> <<s1, s2, s3, s4, s5>>, err |-> "", result |-> txHash]
        ELSE IF drug = NoRow
        THEN [steps |-> <<s1, s2, s3, s4, s5, s6>>,
              err |-> "failed to get drug from database", result |-> txHash]
        ELSE [steps |-> <<s1, s2, s3, s4, s5, s6, s7, s8>>, err |-> "",
              result |-> txHash]

RevertDrugSteps(s0, d, reason, u, t, up) ==
    LET txData == [drug_id |-> d, reason |-> reason, updated_by |-> u,
                   updated_at |-> t]
        s1 == CreateTransaction(s0, "drug_revert", txData, t, up)
        txHash == TxHashOf("drug_revert", txData, s0.uuid + 1, t)
        drug == s1.store.drugs[d]
        m == drug.manufacturer_id
        s2 == [s1 EXCEPT !.mledgers[m] =
                  [@ EXCEPT !.drugs = RevertDrugRecord(@, d, t,
                                          <<"Drug reverted", reason>>),
                            !.last_updated = t]]
        s3 == [s2 EXCEPT !.common =
                  [@ EXCEPT !.drugs = SetDrugStatus(@, d, "reverted", t,
                                          <<"Drug reverted", reason>>),
                            !.last_updated = t]]
        s4 == [s3 EXCEPT !.store.drugs =
                  Update(@, d, [drug EXCEPT !.status = "reverted",
                                            !.blockchain_tx_id = txHash,
                                            !.updated_at = t])]
        s5 == [s4 EXCEPT !.store.drug_status_updates =
                  Append(@, [drug_id |-> d, status |-> "reverted", updated_by |-> u,
                             blockchain_tx_id |-> txHash, timestamp |-> t])]
    IN  IF drug = NoRow
        THEN [steps |-> <<s1>>, err |-> "failed to get drug from database",
              result |-> txHash]
        ELSE [steps |-> <<s1, s2, s3, s4, s5>>, err |-> "", result |-> txHash]

\* BlockchainService.VerifyTransaction at time t: the first block with that
\* hash is validated; no such block is an error
VerifyTransaction(ledger, txID, t) ==
    IF \E i \in 1..Len(ledger.blocks) : ledger.blocks[i].tx_hash = txID
    THEN LET i == CHOOSE i \in 1..Len(ledger.blocks) :
                     /\ ledger.blocks[i].tx_hash = txID
                     /\ \A j \in 1..(i - 1) : ledger.blocks[j].tx_hash # txID
         IN  [valid |-> ValidateTransaction(txID, ledger.blocks[i].tx_data, t),
              err |-> ""]
    ELSE [valid |-> FALSE, err |-> "transaction not found"]

VerifyDrugResult(s, drugID, t) ==
    LET drug == s.store.drugs[drugID]
        i == FindDrug(s.common.drugs, drugID)
    IN  IF drug = NoRow
        THEN [valid |-> FALSE, err |-> "failed to get drug from database"]
        ELSE IF i = 0
        THEN [valid |-> FALSE, err |-> "drug not found in common ledger"]
        ELSE IF drug.verification_hash # s.common.drugs[i].verification_hash
        THEN [valid |-> FALSE, err |-> ""]
        ELSE VerifyTransaction(s.chain, drug.blockchain_tx_id, t)

\* the operation runs to the point where the code returns; its file writes
\* succeed and the store answers (the operations below pass TRUE for up)
Complete(op, args, r) ==
    /\ last.n < MaxOps
    /\ LET s == r.steps[Len(r.steps)]
       IN  /\ chain' = s.chain
           /\ mledgers' = s.mledgers
           /\ common' = s.common
           /\ store' = s.store
           /\ records' = s.records
           /\ uuid' = s.uuid
    /\ last' = [n |-> last.n + 1, op |-> op, args |-> args, ok |-> r.err = "",
                err |-> r.err, writes |-> Len(r.steps), result |-> r.result]
    /\ UNCHANGED <<now, pc, local, tampered, sync, hook>>

CreateDrug ==
    \E d \in DrugIDs, m \in ManufacturerIDs, u \in UserIDs :
        Complete("CreateDrug", [drug_id |-> d, manufacturer_id |-> m],
                 CreateDrugSteps(MgrState, d, m, u, now, TRUE))

CreateShipment ==
    \E sid \in ShipmentIDs, d \in DrugIDs, m \in ManufacturerIDs,
       x \in DistributorIDs, u \in UserIDs :
        Complete("CreateShipment",
                 [shipment_id |-> sid, drug_id |-> d, manufacturer_id |-> m],
                 CreateShipmentSteps(MgrState, sid, d, m, x, u, now, TRUE))

UpdateShipmentStatus ==
    \E sid \in ShipmentIDs, status \in ShipmentStatuses, u \in UserIDs :
        Complete("UpdateShipmentStatus", [shipment_id |-> sid, status |-> status],
                 UpdateShipmentStatusSteps(MgrState, sid, status, u, now, TRUE))

RevertDrug ==
    \E d \in DrugIDs, reason \in Reasons, u \in UserIDs :
        Complete("RevertDrug", [drug_id |-> d, reason |-> reason],
                 RevertDrugSteps(MgrState, d, reason, u, now, TRUE))

VerifyDrug ==
    /\ \E d \in DrugIDs :
          last' = [n |-> last.n, op |-> "VerifyDrug", args |-> [drug_id |-> d],
                   verdict |-> VerifyDrugResult(MgrState, d, now)]
    /\ UNCHANGED <<now, uuid, chain, mledgers, common, store, records, pc, local, tampered, sync, hook>>

\* the transaction ids the store hands out
RecordedTxIDs ==
    {store.drugs[d].blockchain_tx_id : d \in {x \in DrugIDs : store.drugs[x] # NoRow}}
    \cup {store.shipments[sh].blockchain_tx_id :
             sh \in {x \in ShipmentIDs : store.shipments[x] # NoRow}}

\* GET /api/blockchain/verify/:txid
VerifyTransactionStep ==
    /\ \E txID \in RecordedTxIDs :
          last' = [n |-> last.n, op |-> "VerifyTransaction", args |-> [tx_id |-> txID],
                   verdict |-> VerifyTransaction(chain, txID, now)]
    /\ UNCHANGED <<now, uuid, chain, mledgers, common, store, records, pc, local, tampered, sync, hook>>

NextMgr ==
    \/ Tick
    \/ CreateDrug
    \/ CreateShipment
    \/ UpdateShipmentStatus
    \/ RevertDrug
    \/ VerifyDrug
    \/ VerifyTransactionStep

SpecMgr == Init /\ [][NextMgr]_vars

\* ------------------------------- manager operations next to other appenders
\* createDrug and verifyDrug while one webhook or sync task appends to the chain
NextRace ==
    \/ AppendRead("p1")
    \/ AppendWrite("p1")
    \/ CreateDrug
    \/ VerifyDrug

SpecRace == Init /\ [][NextRace]_vars

\* ------------------------------------ manager operations, one write at a time
\* The writes of an operation in the order the code makes them. A step of
\* the operation that appends to the chain is two writes, the chain file and
\* then the tail of the append (record file, store rows); every other step is
\* one write by the manager itself.
RECURSIVE WritesFrom(_, _, _)
WritesFrom(prev, steps, k) ==
    IF k > Len(steps) THEN <<>>
    ELSE (IF steps[k].chain # prev.chain
          THEN <<[s |-> [prev EXCEPT !.chain = steps[k].chain,
                                     !.uuid = steps[k].uuid],
                  by |-> "chain"],
                 [s |-> steps[k], by |-> "tail"]>>
          ELSE <<[s |-> steps[k], by |-> "manager"]>>)
         \o WritesFrom(steps[k], steps, k + 1)

ManagerOps == {"CreateDrug", "CreateShipment", "UpdateShipmentStatus", "RevertDrug"}

\* the manager takes up an operation; no earlier operation lost a write
Begin(op, args, r) ==
    /\ pc["p1"] = "idle"
    /\ last.n < MaxOps
    /\ last.op = "none" \/ (last.op \in ManagerOps /\ ~last.fault)
    /\ pc' = [pc EXCEPT !["p1"] = "running"]
    /\ local' = [local EXCEPT !["p1"] =
                    [op |-> op, args |-> args, start |-> MgrState,
                     writes |-> WritesFrom(MgrState, r.steps, 1), k |-> 0,
                     err |-> r.err, result |-> r.result]]
    /\ UNCHANGED <<now, uuid, chain, mledgers, common, store, records, last, tampered, sync, hook>>

BeginCreateDrug ==
    \E d \in DrugIDs, m \in ManufacturerIDs, u \in UserIDs :
        Begin("CreateDrug", [drug_id |-> d, manufacturer_id |-> m],
              CreateDrugSteps(MgrState, d, m, u, now, TRUE))

BeginCreateShipment ==
    \E sid \in ShipmentIDs, d \in DrugIDs, m \in ManufacturerIDs,
       x \in DistributorIDs, u \in UserIDs :
        Begin("CreateShipment",
              [shipment_id |-> sid, drug_id |-> d, manufacturer_id |-> m],
              CreateShipmentSteps(MgrState, sid, d, m, x, u, now, TRUE))

BeginUpdateShipmentStatus ==
    \E sid \in ShipmentIDs, status \in ShipmentStatuses, u \in UserIDs :
        Begin("UpdateShipmentStatus", [shipment_id |-> sid, status |-> status],
              UpdateShipmentStatusSteps(MgrState, sid, status, u, now, TRUE))

BeginRevertDrug ==
    \E d \in DrugIDs, reason \in Reasons, u \in UserIDs :
        Begin("RevertDrug", [drug_id |-> d, reason |-> reason],
              RevertDrugSteps(MgrState, d, reason, u, now, TRUE))

\* the next write of the running operation succeeds
WriteStep ==
    /\ pc["p1"] = "running"
    /\ local["p1"].k < Len(local["p1"].writes)
    /\ LET s == local["p1"].writes[local["p1"].k + 1].s
       IN  /\ chain' = s.chain
           /\ mledgers' = s.mledgers
           /\ common' = s.common
           /\ store' = s.store
           /\ records' = s.records
           /\ uuid' = s.uuid
    /\ local' = [local EXCEPT !["p1"].k = @ + 1]
    /\ UNCHANGED <<now, last, pc, tampered, sync, hook>>

\* all writes are made: the operation returns what it returns by itself
ReturnOp ==
    /\ pc["p1"] = "running"
    /\ local["p1"].k = Len(local["p1"].writes)
    /\ last' = [n |-> last.n + 1, op |-> local["p1"].op, args |-> local["p1"].args,
                ok |-> local["p1"].err = "", err |-> local["p1"].err,
                fault |-> FALSE, writes |-> local["p1"].k,
                start |-> local["p1"].start]
    /\ pc' = [pc EXCEPT !["p1"] = "idle"]
    /\ local' = [local EXCEPT !["p1"] = NoOp]
    /\ UNCHANGED <<now, uuid, chain, mledgers, common, store, records, tampered, sync, hook>>

\* after the chain append, the next write of the manager (a ledger file, a
\* store row, a second chain append) fails; the operation returns that error
\* and makes no further write. A failure in the tail of an append is only
\* logged and is no failure of the operation.
WriteFails ==
    /\ pc["p1"] = "running"
    /\ local["p1"].k >= 1
    /\ local["p1"].k < Len(local["p1"].writes)
    /\ local["p1"].writes[local["p1"].k + 1].by # "tail"
    /\ last' = [n |-> last.n + 1, op |-> local["p1"].op, args |-> local["p1"].args,
                ok |-> FALSE, err |-> "write failed",
                fault |-> TRUE, writes |-> local["p1"].k,
                start |-> local["p1"].start]
    /\ pc' = [pc EXCEPT !["p1"] = "idle"]
    /\ local' = [local EXCEPT !["p1"] = NoOp]
    /\ UNCHANGED <<now, uuid, chain, mledgers, common, store, records, tampered, sync, hook>>

\* GET /api/blockchain/consistency once an operation has returned
ConsistencyCheckAfter ==
    /\ pc["p1"] = "idle"
    /\ last.op \in ManagerOps
    /\ last' = [n |-> last.n, op |-> "ConsistencyCheck", after |-> last,
                result |-> ConsistencyCheckResult(chain, TRUE)]
    /\ UNCHANGED <<now, uuid, chain, mledgers, common, store, records, pc, local, tampered, sync, hook>>

NextSteps ==
    \/ BeginCreateDrug
    \/ BeginCreateShipment
    \/ BeginUpdateShipmentStatus
    \/ BeginRevertDrug
    \/ WriteStep
    \/ ReturnOp
    \/ WriteFails
    \/ ConsistencyCheckAfter

SpecSteps == Init /\ [][NextSteps]_vars

\* --------------------------------------------- the ledger types' own methods
\* package blockchain: ManufacturerLedger and CommonLedger with the methods
\* that add a record or change a status; each yields the ledger after the
\* call and the error it returns ("" for nil)
LedgerDrugIDs == {"D1", "D2"}
LedgerShipmentIDs == {"S1", "S2"}
NewStatuses == {"in_transit", "delivered"}

ManufacturerLedger_AddDrugRecord_noCheck(ml, drugID, status, t) ==
    [ledger |-> [ml EXCEPT !.drugs = Append(@,
                     [drug_id |-> drugID, status |-> status, created_at |-> t,
                      reverted_at |-> NoTime, current_status |-> status,
                      history |-> <<Status(status, t, "")>>]),
                           !.last_updated = t],
     err |-> ""]

ManufacturerLedger_AddDrugRecord(ml, drugID, status, t) ==
    IF FindDrug(ml.drugs, drugID) # 0
    THEN [ledger |-> ml, err |-> "drug already exists in ledger"]
    ELSE [ledger |-> [ml EXCEPT !.drugs = Append(@,
                          [drug_id |-> drugID, status |-> status, created_at |-> t,
                           reverted_at |-> NoTime, current_status |-> status,
                           history |-> <<Status(status, t, "")>>]),
                                !.last_updated = t],
          err |-> ""]

\* CurrentStatus is set and History grows; the field Status keeps its value
ManufacturerLedger_UpdateDrugStatus(ml, drugID, newStatus, details, t) ==
    LET i == FindDrug(ml.drugs, drugID)
    IN  IF i = 0
        THEN [ledger |-> ml, err |-> "drug not found in ledger"]
        ELSE [ledger |-> [ml EXCEPT !.drugs[i].current_status = newStatus,
                                    !.drugs[i].history =
                                        Append(@, Status(newStatus, t, details)),
                                    !.last_updated = t],
              err |-> ""]

ManufacturerLedger_AddShipmentRecord(ml, shipmentID, drugID, status, t) ==
    IF FindShipment(ml.shipments, shipmentID) # 0
    THEN [ledger |-> ml, err |-> "shipment already exists in ledger"]
    ELSE [ledger |-> [ml EXCEPT !.shipments = Append(@,
                          [shipment_id |-> shipmentID, drug_id |-> drugID,
                           status |-> status, created_at |-> t,
                           current_status |-> status,
                           history |-> <<Status(status, t, "")>>]),
                                !.last_updated = t],
          err |-> ""]

ManufacturerLedger_UpdateShipmentStatus(ml, shipmentID, newStatus, details, t) ==
    LET i == FindShipment(ml.shipments, shipmentID)
    IN  IF i = 0
        THEN [ledger |-> ml, err |-> "shipment not found in ledger"]
        ELSE [ledger |-> [ml EXCEPT !.shipments[i].current_status = newStatus,
                                    !.shipments[i].history =
                                        Append(@, Status(newStatus, t, details)),
                                    !.last_updated = t],
              err |-> ""]

CommonLedger_AddDrugRecord(cl, drugID, manufacturerID, status, verificationHash, t) ==
    IF FindDrug(cl.drugs, drugID) # 0
    THEN [ledger |-> cl, err |-> "drug already exists in common ledger"]
    ELSE [ledger |-> [cl EXCEPT !.drugs = Append(@,
                          [drug_id |-> drugID, manufacturer_id |-> manufacturerID,
                           status |-> status, created_at |-> t,
                           current_status |-> status,
                           verification_hash |-> verificationHash,
                           history |-> <<Status(status, t, "")>>]),
                                !.last_updated = t],
          err |-> ""]

CommonLedger_UpdateDrugStatus(cl, drugID, newStatus, details, t) ==
    LET i == FindDrug(cl.drugs, drugID)
    IN  IF i = 0
        THEN [ledger |-> cl, err |-> "drug not found in common ledger"]
        ELSE [ledger |-> [cl EXCEPT !.drugs[i].current_status = newStatus,
                                    !.drugs[i].history =
                                        Append(@, Status(newStatus, t, details)),
                                    !.last_updated = t],
              err |-> ""]

CommonLedger_AddShipmentRecord(cl, shipmentID, drugID, manufacturerID, distributorID, status, t) ==
    IF FindShipment(cl.shipments, shipmentID) # 0
    THEN [ledger |-> cl, err |-> "shipment already exists in common ledger"]
    ELSE [ledger |-> [cl EXCEPT !.shipments = Append(@,
                          [shipment_id |-> shipmentID, drug_id |-> drugID,
                           manufacturer_id |-> manufacturerID,
                           distributor_id |-> distributorID,
                           status |-> status, created_at |-> t,
                           current_status |-> status,
                           history |-> <<Status(status, t, "")>>]),
                                !.last_updated = t],
          err |-> ""]

CommonLedger_UpdateShipmentStatus(cl, shipmentID, newStatus, details, t) ==
    LET i == FindShipment(cl.shipments, shipmentID)
    IN  IF i = 0
        THEN [ledger |-> cl, err |-> "shipment not found in common ledger"]
        ELSE [ledger |-> [cl EXCEPT !.shipments[i].current_status = newStatus,
                                    !.shipments[i].history =
                                        Append(@, Status(newStatus, t, details)),
                                    !.last_updated = t],
              err |-> ""]

\* a call on the ledger of manufacturer M1
ManufacturerCall(op, kind, id, r) ==
    /\ last.n < MaxOps
    /\ mledgers' = [mledgers EXCEPT !["M1"] = r.ledger]
    /\ last' = [n |-> last.n + 1, op |-> op, kind |-> kind, on |-> "manufacturer",
                id |-> id, err |-> r.err]
    /\ UNCHANGED <<now, uuid, chain, common, store, records, pc, local, tampered, sync, hook>>

CommonCall(op, kind, id, r) ==
    /\ last.n < MaxOps
    /\ common' = r.ledger
    /\ last' = [n |-> last.n + 1, op |-> op, kind |-> kind, on |-> "common",
                id |-> id, err |-> r.err]
    /\ UNCHANGED <<now, uuid, chain, mledgers, store, records, pc, local, tampered, sync, hook>>

MLAddDrugRecord ==
    \E d \in LedgerDrugIDs :
        ManufacturerCall("AddDrugRecord", "drug", d,
            ManufacturerLedger_AddDrugRecord(mledgers["M1"], d, "created", now))

MLUpdateDrugStatus ==
    \E d \in LedgerDrugIDs, st \in NewStatuses :
        ManufacturerCall("UpdateDrugStatus", "drug", d,
            ManufacturerLedger_UpdateDrugStatus(mledgers["M1"], d, st, "note", now))

MLAddShipmentRecord ==
    \E sid \in LedgerShipmentIDs :
        ManufacturerCall("AddShipmentRecord", "shipment", sid,
            ManufacturerLedger_AddShipmentRecord(mledgers["M1"], sid, "D1",
                                                 "created", now))

MLUpdateShipmentStatus ==
    \E sid \in LedgerShipmentIDs, st \in NewStatuses :
        ManufacturerCall("UpdateShipmentStatus", "shipment", sid,
            ManufacturerLedger_UpdateShipmentStatus(mledgers["M1"], sid, st,
                                                    "note", now))

CLAddDrugRecord ==
    \E d \in LedgerDrugIDs :
        CommonCall("AddDrugRecord", "drug", d,
            CommonLedger_AddDrugRecord(common, d, "M1", "created",
                                       generateVerificationHash(d, "M1", now), now))

CLUpdateDrugStatus ==
    \E d \in LedgerDrugIDs, st \in NewStatuses :
        CommonCall("UpdateDrugStatus", "drug", d,
            CommonLedger_UpdateDrugStatus(common, d, st, "note", now))

CLAddShipmentRecord ==
    \E sid \in LedgerShipmentIDs :
        CommonCall("AddShipmentRecord", "shipment", sid,
            CommonLedger_AddShipmentRecord(common, sid, "D1", "M1", "X1",
                                           "created", now))

CLUpdateShipmentStatus ==
    \E sid \in LedgerShipmentIDs, st \in NewStatuses :
        CommonCall("UpdateShipmentStatus", "shipment", sid,
            CommonLedger_UpdateShipmentStatus(common, sid, st, "note", now))

NextLedger ==
    \/ Tick
    \/ MLAddDrugRecord
    \/ MLUpdateDrugStatus
    \/ MLAddShipmentRecord
    \/ MLUpdateShipmentStatus
    \/ CLAddDrugRecord
    \/ CLUpdateDrugStatus
    \/ CLAddShipmentRecord
    \/ CLUpdateShipmentStatus

\* the ledgers start new, as in Init
SpecLedger == Init /\ [][NextLedger]_vars

\* ------------------------------------------------------------- sync cycle
\* rows of the store as another application writes them
SyncDrugIDs == {"D1", "D2"}

\* the sentinel "pending"; the empty string is NoHash
Pending == [pending |-> TRUE]

\* a transaction id a row got outside this service
ForeignHash == [foreign |-> TRUE]

\* blockchain_tx_id of a new row: the column is null, "", "pending" or a hash
TxIDKinds == {"missing", "empty", "pending", "hash"}

WithTxID(row, kind) ==
    CASE kind = "missing" -> row
      [] kind = "empty" -> Put(row, "blockchain_tx_id", NoHash)
      [] kind = "pending" -> Put(row, "blockchain_tx_id", Pending)
      [] OTHER -> Put(row, "blockchain_tx_id", ForeignHash)

\* the store the sync cycles run on: no rows yet
SyncInit ==
    /\ now = 0
    /\ uuid = 0
    /\ chain = EmptyChain
    /\ mledgers = [m \in ManufacturerIDs |-> EmptyLedger]
    /\ common = EmptyLedger
    /\ store = [EmptyStore EXCEPT !.drugs = [d \in SyncDrugIDs |-> NoRow]]
    /\ records = {}
    /\ last = NoOp
    /\ pc = [p \in Procs |-> "idle"]
    /\ local = [p \in Procs |-> NoOp]
    /\ tampered = 0
    /\ sync = NewSyncService
    /\ hook = NewWebhookHandler("secret")

InsertDrugRow ==
    /\ \E d \in SyncDrugIDs, kind \in TxIDKinds :
          /\ store.drugs[d] = NoRow
          /\ store' = [store EXCEPT !.drugs[d] =
                          WithTxID([drug_id |-> d, manufacturer |-> "M1"], kind)]
    /\ UNCHANGED <<now, uuid, chain, mledgers, common, records, last, pc, local,
                   tampered, sync, hook>>

InsertShipmentRow ==
    /\ \E sid \in ShipmentIDs, kind \in TxIDKinds :
          /\ store.shipments[sid] = NoRow
          /\ store' = [store EXCEPT !.shipments[sid] =
                          WithTxID([shipment_id |-> sid, status |-> "created"], kind)]
    /\ UNCHANGED <<now, uuid, chain, mledgers, common, records, last, pc, local,
                   tampered, sync, hook>>

\* if txID, ok := record["blockchain_tx_id"].(string); ok && txID != "pending"
\* { continue }: a string other than "pending" is passed over, the empty
\* string too
SkipsRecord(record) ==
    "blockchain_tx_id" \in DOMAIN record /\ record.blockchain_tx_id # Pending

\* the orders in which Select can return the rows with the keys in S
Orders(S) ==
    {q \in [1..Cardinality(S) -> S] : \A x \in S : \E i \in DOMAIN q : q[i] = x}

\* the loop of pullChangesFromSupabase over the rows Select returned, from the
\* i-th on; s is the state the loop has reached, n the rows counted so far
RECURSIVE pullFrom(_, _, _, _, _, _, _)
pullFrom(s, table, rows, order, i, n, t) ==
    IF i > Len(order) THEN [s |-> s, processedCount |-> n]
    ELSE LET record == rows[order[i]]
         IN  IF SkipsRecord(record)
             THEN pullFrom(s, table, rows, order, i + 1, n, t)
             ELSE IF table # "drugs"
             THEN pullFrom(s, table, rows, order, i + 1, n + 1, t)
             ELSE LET s1 == CreateTransaction(s, "drug", record, t, TRUE)
                      txHash == TxHashOf("drug", record, s.uuid + 1, t)
                      s2 == [s1 EXCEPT !.store.drugs =
                                Update(@, record.drug_id,
                                       [blockchain_tx_id |-> txHash])]
                  IN  pullFrom(s2, table, rows, order, i + 1, n + 1, t)

syncTable_noError(s, table, selected, order, t) ==
    LET rows == IF table = "drugs" THEN s.store.drugs ELSE s.store.shipments
        r == pullFrom(s, table, rows, order, 1, 0, t)
    IN  IF ~selected
        THEN [s |-> s, status |-> "success", records_received |-> 0]
        ELSE [s |-> r.s, status |-> "success", records_received |-> r.processedCount]

\* syncTable: selected tells whether Select answered; order is the order of
\* the rows it returned
syncTable(s, table, selected, order, t) ==
    IF ~selected
    THEN [s |-> s, status |-> "error", records_received |-> 0]
    ELSE LET rows == IF table = "drugs" THEN s.store.drugs ELSE s.store.shipments
             r == pullFrom(s, table, rows, order, 1, 0, t)
         IN  [s |-> r.s, status |-> "success", records_received |-> r.processedCount]

PresentKeys(table) == {k \in DOMAIN table : table[k] # NoRow}

\* the rows of a table a cycle does not pass over
RowsToProcess(table) == {k \in PresentKeys(table) : ~SkipsRecord(table[k])}

\* logSyncStatus: the file <table>-sync-<timestamp>.json in sync_logs, created
\* or replaced
logSyncStatus(logs, table, status, t) ==
    WriteFile(logs, <<table, t>>,
              [table |-> table, status |-> status.status,
               records_received |-> status.records_received])

\* one sync cycle: the drugs table, then the shipments table
performSync ==
    /\ last.n < MaxOps
    /\ \E selDrugs \in BOOLEAN, selShipments \in BOOLEAN,
          od \in Orders(PresentKeys(store.drugs)),
          os \in Orders(PresentKeys(store.shipments)) :
          LET a == syncTable(MgrState, Tables[1], selDrugs, od, now)
              b == syncTable(a.s, Tables[2], selShipments, os, now)
          IN  /\ chain' = b.s.chain
              /\ mledgers' = b.s.mledgers
              /\ common' = b.s.common
              /\ store' = b.s.store
              /\ records' = b.s.records
              /\ uuid' = b.s.uuid
              /\ sync' = [sync EXCEPT
                            !.SyncStatusMap =
                                [t \in {"drugs", "shipments"} |->
                                    IF (IF t = "drugs" THEN a.status ELSE b.status)
                                          = "success"
                                    THEN now ELSE sync.SyncStatusMap[t]],
                            !.LastSyncTime = now,
                            !.logs = logSyncStatus(
                                         logSyncStatus(sync.logs, Tables[1], a, now),
                                         Tables[2], b, now)]
              /\ last' = [n |-> last.n + 1, op |-> "performSync",
                          selected |-> [drugs |-> selDrugs, shipments |-> selShipments],
                          status |-> [drugs |-> a.status, shipments |-> b.status],
                          records_received |->
                              [drugs |-> a.records_received,
                               shipments |-> b.records_received]]
    /\ UNCHANGED <<now, pc, local, tampered, hook>>

\* the cycles of one run happen within one tick of the clock
NextSync ==
    \/ InsertDrugRow
    \/ InsertShipmentRow
    \/ performSync

SpecSync == SyncInit /\ [][NextSync]_vars

\* ------------------------------------- sync cycles on a store that fails
\* the loop of pullChangesFromSupabase over the rows of the drugs table when
\* the store, after answering Select, may refuse the writes of the cycle:
\* tailUp tells whether it answers the calls of AddTransactionToBlockchain
\* (the insert into blockchain_ledger, the Update of the row), wroteBack
\* whether the Update of the row with the hash after CreateTransaction
\* succeeds; both failures are logged and the loop goes on
RECURSIVE pullDrugsFrom(_, _, _, _, _, _, _, _)
pullDrugsFrom(s, rows, order, i, n, t, tailUp, wroteBack) ==
    IF i > Len(order) THEN [s |-> s, processedCount |-> n]
    ELSE LET record == rows[order[i]]
         IN  IF SkipsRecord(record)
             THEN pullDrugsFrom(s, rows, order, i + 1, n, t, tailUp, wroteBack)
             ELSE LET s1 == CreateTransaction(s, "drug", record, t, tailUp)
                      txHash == TxHashOf("drug", record, s.uuid + 1, t)
                      s2 == IF wroteBack
                            THEN [s1 EXCEPT !.store.drugs =
                                     Update(@, record.drug_id,
                                            [blockchain_tx_id |-> txHash])]
                            ELSE s1
                  IN  pullDrugsFrom(s2, rows, order, i + 1, n + 1, t, tailUp, wroteBack)

\* one sync cycle whose Selects are answered
performSyncWrites ==
    /\ last.n < MaxOps
    /\ \E tailUp \in BOOLEAN, wroteBack \in BOOLEAN,
          od \in Orders(PresentKeys(store.drugs)),
          os \in Orders(PresentKeys(store.shipments)) :
          LET r == pullDrugsFrom(MgrState, store.drugs, od, 1, 0, now, tailUp, wroteBack)
              a == [s |-> r.s, status |-> "success",
                    records_received |-> r.processedCount]
              b == syncTable(a.s, Tables[2], TRUE, os, now)
          IN  /\ chain' = b.s.chain
              /\ mledgers' = b.s.mledgers
              /\ common' = b.s.common
              /\ store' = b.s.store
              /\ records' = b.s.records
              /\ uuid' = b.s.uuid
              /\ sync' = [sync EXCEPT
                            !.SyncStatusMap = [t \in {"drugs", "shipments"} |-> now],
                            !.LastSyncTime = now,
                            !.logs = logSyncStatus(
                                         logSyncStatus(sync.logs, Tables[1], a, now),
                                         Tables[2], b, now)]
              /\ last' = [n |-> last.n + 1, op |-> "performSync",
                          tailUp |-> tailUp, wroteBack |-> wroteBack,
                          status |-> [drugs |-> a.status, shipments |-> b.status],
                          records_received |->
                              [drugs |-> a.records_received,
                               shipments |-> b.records_received]]
    /\ UNCHANGED <<now, pc, local, tampered, hook>>

\* rows come into the store and are never changed from outside afterwards
NextPull ==
    \/ InsertDrugRow
    \/ InsertShipmentRow
    \/ performSyncWrites

SpecPull == SyncInit /\ [][NextPull]_vars

\* ------------------------------------------- sync cycles that overlap
\* performSync takes no lock: the cycle of the periodic task (p1) and the
\* cycle ForceSync starts (p2) run side by side. A cycle is followed through
\* its Select of the drugs table, then for each row it does not pass over the
\* read of the chain file and the write that follows, then its end.
CyclesBegun ==
    last.n + Cardinality({p \in Procs : pc[p] # "idle"})

\* Select("drugs", "*"): the cycle keeps the rows it got
SyncSelect(p) ==
    /\ pc[p] = "idle"
    /\ CyclesBegun < MaxOps
    /\ \E order \in Orders(RowsToProcess(store.drugs)) :
          local' = [local EXCEPT ![p] = [rows |-> store.drugs, todo |-> order]]
    /\ pc' = [pc EXCEPT ![p] = "pulling"]
    /\ UNCHANGED <<now, uuid, chain, mledgers, common, store, records, last,
                   tampered, sync, hook>>

\* CreateTransaction("drug", drugData) up to the read of the chain file
SyncRowRead(p) ==
    /\ pc[p] = "pulling"
    /\ local[p].todo # <<>>
    /\ LET record == local[p].rows[Head(local[p].todo)]
       IN  local' = [local EXCEPT ![p] =
                        [rows |-> local[p].rows, todo |-> local[p].todo,
                         ledger |-> chain,
                         txData |-> TxDataOf("drug", record, uuid + 1, now),
                         txHash |-> TxHashOf("drug", record, uuid + 1, now)]]
    /\ uuid' = uuid + 1
    /\ pc' = [pc EXCEPT ![p] = "read"]
    /\ UNCHANGED <<now, chain, mledgers, common, store, records, last, tampered, sync, hook>>

\* the whole-file write of the chain, the tail of the append and the Update
\* of the row with the hash
SyncRowWrite(p) ==
    /\ pc[p] = "read"
    /\ LET l == local[p]
           newLedger == AppendBlock(l.ledger, l.txData, l.txHash, now)
           st == StoreAfterAppend(store, l.txData, l.txHash,
                                  newLedger.block_height, TRUE)
       IN  /\ chain' = newLedger
           /\ store' = [st EXCEPT !.drugs =
                           Update(@, l.txData.drug_id,
                                  [blockchain_tx_id |-> l.txHash])]
           /\ records' = RecordsAfterAppend(records, l.txData, l.txHash, TRUE)
           /\ mledgers' = MLedgersAfterAppend(mledgers, l.txData, now, TRUE)
           /\ common' = CommonAfterAppend(common, l.txData, l.txHash, now, TRUE)
           /\ local' = [local EXCEPT ![p] = [rows |-> l.rows, todo |-> Tail(l.todo)]]
    /\ pc' = [pc EXCEPT ![p] = "pulling"]
    /\ UNCHANGED <<now, uuid, last, tampered, sync, hook>>

\* the shipments table is pulled (its rows are counted) and the cycle ends
SyncFinish(p) ==
    /\ pc[p] = "pulling"
    /\ local[p].todo = <<>>
    /\ LET a == [status |-> "success",
                 records_received |->
                     Cardinality(RowsToProcess(local[p].rows))]
           b == [status |-> "success",
                 records_received |->
                     Cardinality(RowsToProcess(store.shipments))]
       IN  /\ sync' = [sync EXCEPT
                         !.SyncStatusMap = [t \in {"drugs", "shipments"} |-> now],
                         !.LastSyncTime = now,
                         !.logs = logSyncStatus(
                                      logSyncStatus(sync.logs, Tables[1], a, now),
                                      Tables[2], b, now)]
           /\ last' = [n |-> last.n + 1, op |-> "performSync", by |-> p,
                       selected |-> [drugs |-> TRUE, shipments |-> TRUE],
                       status |-> [drugs |-> "success", shipments |-> "success"],
                       records_received |->
                           [drugs |-> a.records_received,
                            shipments |-> b.records_received]]
    /\ pc' = [pc EXCEPT ![p] = "idle"]
    /\ local' = [local EXCEPT ![p] = NoOp]
    /\ UNCHANGED <<now, uuid, chain, mledgers, common, store, records, tampered, hook>>

NextForce ==
    \/ InsertDrugRow
    \/ \E p \in Procs : SyncSelect(p)
    \/ \E p \in Procs : SyncRowRead(p)
    \/ \E p \in Procs : SyncRowWrite(p)
    \/ \E p \in Procs : SyncFinish(p)

SpecForce == SyncInit /\ [][NextForce]_vars

\* ------------------------------------------------------- webhook requests
\* MaxRetries: 3 in NewWebhookHandler
MaxRetries == 3

\* the secrets a handler is configured with: none, or one
Secrets == {"", "secret"}

\* the X-Webhook-Signature header of a request: absent or empty, the secret,
\* something else
Signatures == {"", "secret", "wrong"}

EventTypes == {"INSERT", "UPDATE", "DELETE", "TRUNCATE"}

HookTables == {"drugs", "shipments", "users"}

\* the fields NewDrugTransaction requires
DrugRequiredFields ==
    {"drug_id", "manufacturer", "name", "batch_number", "manufacture_date", "expiry_date"}

FullDrug ==
    [drug_id |-> "D1", manufacturer |-> "M1", name |-> "n", batch_number |-> "b",
     manufacture_date |-> "md", expiry_date |-> "ed"]

Without(r, k) == [x \in (DOMAIN r) \ {k} |-> r[x]]

\* the record (or old_record) of a payload for the table
HookRecords(table) ==
    IF table = "drugs"
    THEN {WithTxID(FullDrug, kind) : kind \in TxIDKinds}
         \cup {Without(FullDrug, "name"), Without(FullDrug, "drug_id")}
    ELSE IF table = "shipments"
    THEN {WithTxID([shipment_id |-> "S1", status |-> "created"], kind) :
            kind \in {"missing", "hash"}}
         \cup {[status |-> "created"]}
    ELSE {[user_id |-> "U1"]}

\* verifySignature: false on an empty signature, else the comparison
verifySignature(signature, secret) ==
    IF signature = "" THEN FALSE ELSE signature = secret

\* TransactionTracker.IsTransactionProcessed
IsTransactionProcessed(hk, txHash) == txHash \in hk.ProcessedTxs

MarkTransactionProcessed_noSave(hk, txHash, saved) ==
    [hk EXCEPT !.ProcessedTxs = @ \cup {txHash}]

\* TransactionTracker.MarkTransactionProcessed: the map entry, then
\* saveProcessedTxs writes every key of the map; saved tells whether
\* os.WriteFile succeeded
MarkTransactionProcessed(hk, txHash, saved) ==
    [hk EXCEPT !.ProcessedTxs = @ \cup {txHash},
               !.file = IF saved THEN hk.ProcessedTxs \cup {txHash} ELSE @]

\* NewTransactionTracker on the directory of an earlier tracker:
\* loadProcessedTxs reads the file into an empty map
loadProcessedTxs(hk) == [hk EXCEPT !.ProcessedTxs = hk.file]

\* the id column of the table
IDField(table) == IF table = "drugs" THEN "drug_id" ELSE "shipment_id"

\* record[<id>].(string): the id, "" when the record has none
RecordID(table, record) ==
    IF IDField(table) \in DOMAIN record THEN record[IDField(table)] ELSE ""

HasTxID_pendingOnly(record) ==
    /\ "blockchain_tx_id" \in DOMAIN record
    /\ record.blockchain_tx_id = Pending

\* txID, ok := record["blockchain_tx_id"].(string); ok && txID != "" &&
\* txID != "pending"
HasTxID(record) ==
    /\ "blockchain_tx_id" \in DOMAIN record
    /\ record.blockchain_tx_id # NoHash
    /\ record.blockchain_tx_id # Pending

\* NewDrugTransaction / NewShipmentTransaction accept the copy of the record
ValidTransaction(table, txData) ==
    IF table = "drugs" THEN DrugRequiredFields \subseteq DOMAIN txData
    ELSE "shipment_id" \in DOMAIN txData

\* a task of the handler: the event it was started for, the attempt it is in
\* (i of the loop), the backoffs it has slept, and what processRecord holds
NewTask(kind, table, record) ==
    [kind |-> kind, table |-> table, payload |-> record, record |-> record,
     i |-> 0, slept |-> <<>>, txHash |-> NoHash, err |-> "", created |-> 0,
     outcome |-> ""]

\* a request: the signature header, whether the body parses, and the payload
Requests ==
    {[signature |-> sg, parses |-> ps, type |-> ty, table |-> tb, record |-> rc] :
        sg \in Signatures, ps \in BOOLEAN, ty \in EventTypes,
        tb \in HookTables, rc \in UNION {HookRecords(t) : t \in HookTables}}

\* the hashes the tracker's file can hold when the handler is constructed
TrackerFiles == {{}, {ForeignHash}}

\* the handler constructed with the secret on a directory whose tracker file
\* holds the hashes of file
HookStart(secret, file) ==
    /\ now = 0
    /\ uuid = 0
    /\ chain = EmptyChain
    /\ mledgers = [m \in ManufacturerIDs |-> EmptyLedger]
    /\ common = EmptyLedger
    /\ store = EmptyStore
    /\ records = {}
    /\ last = NoOp
    /\ pc = [p \in Procs |-> "idle"]
    /\ local = [p \in Procs |-> NoOp]
    /\ tampered = 0
    /\ sync = NewSyncService
    /\ hook = loadProcessedTxs([NewWebhookHandler(secret) EXCEPT !.file = file])

HookInit == \E secret \in Secrets, file \in TrackerFiles : HookStart(secret, file)

\* HandleWebhook: 401 on a bad signature when a secret is configured, 400 on
\* a body that does not parse, else 200 with a task started for INSERT,
\* UPDATE and DELETE; p is the goroutine of that task
HandleRequest(p, request) ==
    /\ pc[p] = "idle"
    /\ LET response(code) ==
               [n |-> last.n, op |-> "HandleWebhook", code |-> code,
                signature |-> request.signature]
       IN  IF hook.Secret # "" /\ ~verifySignature(request.signature, hook.Secret)
           THEN /\ last' = response(401)
                /\ UNCHANGED <<pc, local>>
           ELSE IF ~request.parses
           THEN /\ last' = response(400)
                /\ UNCHANGED <<pc, local>>
           ELSE IF request.type \in {"INSERT", "UPDATE"}
           THEN /\ last' = response(200)
                /\ pc' = [pc EXCEPT ![p] = "attempt"]
                /\ local' = [local EXCEPT ![p] =
                                NewTask("record", request.table, request.record)]
           ELSE IF request.type = "DELETE"
           THEN /\ last' = response(200)
                /\ pc' = [pc EXCEPT ![p] = "attempt"]
                /\ local' = [local EXCEPT ![p] =
                                NewTask("delete", request.table, request.record)]
           ELSE /\ last' = response(200)
                /\ UNCHANGED <<pc, local>>
    /\ UNCHANGED <<now, uuid, chain, mledgers, common, store, records, tampered,
                   sync, hook>>

HandleWebhook(p) == \E request \in Requests : HandleRequest(p, request)

\* the return of process...WithRetry: the task is over
TaskReturns(p, l, outcome) ==
    /\ last' = [n |-> last.n + 1,
                op |-> IF l.kind = "record" THEN "processRecordWithRetry"
                       ELSE "processDeleteWithRetry",
                outcome |-> outcome, table |-> l.table, payload |-> l.payload,
                attempts |-> l.i + 1, slept |-> l.slept,
                txHash |-> l.txHash, err |-> l.err, created |-> l.created]
    /\ pc' = [pc EXCEPT ![p] = "done"]
    /\ local' = [local EXCEPT ![p] = [l EXCEPT !.outcome = outcome]]

\* an attempt returned err
AttemptFails(p, l, err) ==
    /\ pc' = [pc EXCEPT ![p] = "failed"]
    /\ local' = [local EXCEPT ![p] = [l EXCEPT !.err = err]]

\* processRecord up to the hash: the switch on the table, the id of the
\* record, and the hash, which is the id the record carries or the one
\* createDrugTransaction / createShipmentTransaction returns; added tells
\* whether AddTransactionToBlockchain succeeded
HookResolve(p) ==
    /\ pc[p] = "attempt"
    /\ local[p].kind = "record"
    /\ LET l == local[p]
           recordID == RecordID(l.table, l.record)
           txHash == GenerateTransactionHash(l.record, uuid + 1, now)
           newLedger == AppendBlock(chain, l.record, txHash, now)
       IN  IF l.table \notin {"drugs", "shipments"}
           THEN /\ AttemptFails(p, l, "unhandled table in webhook")
                /\ UNCHANGED <<uuid, chain, mledgers, common, store, records>>
           ELSE IF recordID = ""
           THEN /\ AttemptFails(p, l, "no valid record ID found")
                /\ UNCHANGED <<uuid, chain, mledgers, common, store, records>>
           ELSE IF HasTxID(l.record)
           THEN /\ pc' = [pc EXCEPT ![p] = "resolved"]
                /\ local' = [local EXCEPT ![p] =
                                [l EXCEPT !.txHash = l.record.blockchain_tx_id]]
                /\ UNCHANGED <<uuid, chain, mledgers, common, store, records>>
           ELSE IF ~ValidTransaction(l.table, l.record)
           THEN /\ pc' = [pc EXCEPT ![p] = "resolved"]
                /\ local' = [local EXCEPT ![p] = [l EXCEPT !.txHash = NoHash]]
                /\ UNCHANGED <<uuid, chain, mledgers, common, store, records>>
           ELSE \E added \in BOOLEAN :
                  IF added
                  THEN /\ uuid' = uuid + 1
                       /\ chain' = newLedger
                       /\ store' = StoreAfterAppend(store, l.record, txHash,
                                                    newLedger.block_height, TRUE)
                       /\ records' = RecordsAfterAppend(records, l.record, txHash, TRUE)
                       /\ mledgers' = MLedgersAfterAppend(mledgers, l.record, now, TRUE)
                       /\ common' = CommonAfterAppend(common, l.record, txHash, now, TRUE)
                       /\ pc' = [pc EXCEPT ![p] = "resolved"]
                       /\ local' = [local EXCEPT ![p] =
                                       [l EXCEPT !.txHash = txHash,
                                                 !.created = @ + 1,
                                                 !.record = Put(@, "blockchain_tx_id", txHash)]]
                  ELSE /\ uuid' = uuid + 1
                       /\ pc' = [pc EXCEPT ![p] = "resolved"]
                       /\ local' = [local EXCEPT ![p] = [l EXCEPT !.txHash = NoHash]]
                       /\ UNCHANGED <<chain, mledgers, common, store, records>>
    /\ UNCHANGED <<now, last, tampered, sync, hook>>

\* processRecord from the tracker lookup to WriteFile: nothing is written
\* for a hash the tracker holds; written tells whether WriteFile succeeded
HookSnapshot(p) ==
    /\ pc[p] = "resolved"
    /\ LET l == local[p]
           record == IF l.txHash # NoHash
                     THEN Put(l.record, "blockchain_tx_id", l.txHash) ELSE l.record
       IN  IF l.txHash # NoHash /\ IsTransactionProcessed(hook, l.txHash)
           THEN /\ TaskReturns(p, l, "skipped")
                /\ UNCHANGED records
           ELSE \E written \in BOOLEAN :
                  IF written
                  THEN /\ records' = WriteFile(records,
                                         <<l.table, RecordID(l.table, l.record), now>>,
                                         record)
                       /\ pc' = [pc EXCEPT ![p] = "written"]
                       /\ local' = [local EXCEPT ![p] = [l EXCEPT !.record = record]]
                       /\ UNCHANGED last
                  ELSE /\ AttemptFails(p, [l EXCEPT !.record = record],
                                       "failed to write record to file")
                       /\ UNCHANGED <<records, last>>
    /\ UNCHANGED <<now, uuid, chain, mledgers, common, store, tampered, sync, hook>>

\* the rest of processRecord: the hash is marked (a failure to save the
\* tracker's file is logged only) and the table's last sync time is set
HookMark(p) ==
    /\ pc[p] = "written"
    /\ LET l == local[p]
       IN  /\ IF l.txHash # NoHash
              THEN \E saved \in BOOLEAN :
                      hook' = MarkTransactionProcessed(hook, l.txHash, saved)
              ELSE UNCHANGED hook
           /\ sync' = [sync EXCEPT !.SyncStatusMap[l.table] = now]
           /\ TaskReturns(p, l, "processed")
    /\ UNCHANGED <<now, uuid, chain, mledgers, common, store, records, tampered>>

HookDelete_marks(p) ==
    /\ pc[p] = "attempt"
    /\ local[p].kind = "delete"
    /\ LET l == local[p]
           recordID == RecordID(l.table, l.record)
       IN  IF l.table \notin {"drugs", "shipments"}
           THEN /\ AttemptFails(p, l, "unhandled table in webhook")
                /\ UNCHANGED <<records, sync, last>>
           ELSE IF recordID = ""
           THEN /\ AttemptFails(p, l, "no valid record ID found")
                /\ UNCHANGED <<records, sync, last>>
           ELSE \E written \in BOOLEAN :
                  IF written
                  THEN /\ records' = WriteFile(records,
                                         <<l.table, recordID, now, "deleted">>,
                                         [deleted_at |-> now, original_record |-> l.record])
                       /\ sync' = [sync EXCEPT !.SyncStatusMap[l.table] = now]
                       /\ TaskReturns(p, l, "processed")
                  ELSE /\ AttemptFails(p, l, "failed to write deletion record to file")
                       /\ UNCHANGED <<records, sync, last>>
    /\ hook' = MarkTransactionProcessed(hook, ForeignHash, TRUE)
    /\ UNCHANGED <<now, uuid, chain, mledgers, common, store, tampered>>

\* processDelete: the tombstone of the old record, then the table's last
\* sync time; written tells whether WriteFile succeeded
HookDelete(p) ==
    /\ pc[p] = "attempt"
    /\ local[p].kind = "delete"
    /\ LET l == local[p]
           recordID == RecordID(l.table, l.record)
       IN  IF l.table \notin {"drugs", "shipments"}
           THEN /\ AttemptFails(p, l, "unhandled table in webhook")
                /\ UNCHANGED <<records, sync, last>>
           ELSE IF recordID = ""
           THEN /\ AttemptFails(p, l, "no valid record ID found")
                /\ UNCHANGED <<records, sync, last>>
           ELSE \E written \in BOOLEAN :
                  IF written
                  THEN /\ records' = WriteFile(records,
                                         <<l.table, recordID, now, "deleted">>,
                                         [deleted_at |-> now, original_record |-> l.record])
                       /\ sync' = [sync EXCEPT !.SyncStatusMap[l.table] = now]
                       /\ TaskReturns(p, l, "processed")
                  ELSE /\ AttemptFails(p, l, "failed to write deletion record to file")
                       /\ UNCHANGED <<records, sync, last>>
    /\ UNCHANGED <<now, uuid, chain, mledgers, common, store, tampered, hook>>

\* the end of a failed pass of the loop: time.Sleep(time.Second *
\* time.Duration(i+1)), which the clock advances by, i++, and the next
\* attempt if i < MaxRetries; after the last one the failure is logged and
\* the task returns
HookBackoff_noLimit(p) ==
    /\ pc[p] = "failed"
    /\ now' = now + local[p].i + 1
    /\ LET l == [local[p] EXCEPT !.slept = Append(@, local[p].i + 1)]
       IN  IF l.i + 1 < MaxRetries + 1
           THEN /\ pc' = [pc EXCEPT ![p] = "attempt"]
                /\ local' = [local EXCEPT ![p] = [l EXCEPT !.i = @ + 1]]
                /\ UNCHANGED last
           ELSE TaskReturns(p, l, "dropped")
    /\ UNCHANGED <<uuid, chain, mledgers, common, store, records, tampered, sync, hook>>

HookBackoff(p) ==
    /\ pc[p] = "failed"
    /\ now' = now + local[p].i + 1
    /\ LET l == [local[p] EXCEPT !.slept = Append(@, local[p].i + 1)]
       IN  IF l.i + 1 < MaxRetries
           THEN /\ pc' = [pc EXCEPT ![p] = "attempt"]
                /\ local' = [local EXCEPT ![p] = [l EXCEPT !.i = @ + 1]]
                /\ UNCHANGED last
           ELSE TaskReturns(p, l, "dropped")
    /\ UNCHANGED <<uuid, chain, mledgers, common, store, records, tampered, sync, hook>>

\* time between the requests; within a task it is the backoffs that take
\* time
HookTick ==
    /\ \A p \in Procs : pc[p] \in {"idle", "done"}
    /\ Tick

\* one request
NextHook ==
    \/ HookTick
    \/ HandleWebhook("p1")
    \/ HookResolve("p1")
    \/ HookSnapshot("p1")
    \/ HookMark("p1")
    \/ HookDelete("p1")
    \/ HookBackoff("p1")

SpecHook == HookInit /\ [][NextHook]_vars

\* the task is a goroutine of its own and none of its steps waits for
\* another task: a step it can take is taken
SpecHookFair ==
    /\ SpecHook
    /\ WF_vars(HookResolve("p1"))
    /\ WF_vars(HookSnapshot("p1"))
    /\ WF_vars(HookMark("p1"))
    /\ WF_vars(HookDelete("p1"))
    /\ WF_vars(HookBackoff("p1"))

\* ----------------------------------------------------------- the tracker
\* the hashes the tracker is asked about
TrackerHashes ==
    {ForeignHash, GenerateTransactionHash(FullDrug, 1, 0),
     GenerateTransactionHash(FullDrug, 2, 0)}

NoCalls == [n |-> 0, op |-> "none", called |-> {}, returned |-> {}]

\* MarkTransactionProcessed(txHash); called are the hashes it has been called
\* with, returned those it returned nil for
TrackerMark ==
    /\ \E txHash \in TrackerHashes, saved \in BOOLEAN :
          /\ hook' = MarkTransactionProcessed(hook, txHash, saved)
          /\ last' = [n |-> 0, op |-> "MarkTransactionProcessed", txHash |-> txHash,
                      err |-> ~saved,
                      called |-> last.called \cup {txHash},
                      returned |-> IF saved THEN last.returned \cup {txHash}
                                   ELSE last.returned]
    /\ UNCHANGED <<now, uuid, chain, mledgers, common, store, records, pc, local,
                   tampered, sync>>

\* IsTransactionProcessed(txHash)
TrackerQuery ==
    /\ \E txHash \in TrackerHashes :
          last' = [n |-> 0, op |-> "IsTransactionProcessed", txHash |-> txHash,
                   result |-> IsTransactionProcessed(hook, txHash),
                   called |-> last.called, returned |-> last.returned]
    /\ UNCHANGED <<now, uuid, chain, mledgers, common, store, records, pc, local,
                   tampered, sync, hook>>

\* NewTransactionTracker on the directory of the tracker so far
TrackerRestart ==
    /\ hook' = loadProcessedTxs(hook)
    /\ last' = [n |-> 0, op |-> "NewTransactionTracker",
                called |-> last.called, returned |-> last.returned]
    /\ UNCHANGED <<now, uuid, chain, mledgers, common, store, records, pc, local,
                   tampered, sync>>

TrackerInit ==
    /\ now = 0
    /\ uuid = 0
    /\ chain = EmptyChain
    /\ mledgers = [m \in ManufacturerIDs |-> EmptyLedger]
    /\ common = EmptyLedger
    /\ store = EmptyStore
    /\ records = {}
    /\ last = NoCalls
    /\ pc = [p \in Procs |-> "idle"]
    /\ local = [p \in Procs |-> NoOp]
    /\ tampered = 0
    /\ sync = NewSyncService
    /\ hook = NewWebhookHandler("secret")

NextTracker == TrackerMark \/ TrackerQuery \/ TrackerRestart

SpecTracker == TrackerInit /\ [][NextTracker]_vars

\* ------------------------------------------------ concurrent tracker calls
\* t.mu is held for writing by the task between Lock and Unlock of
\* MarkTransactionProcessed, and for reading by a task inside
\* saveProcessedTxs
HoldsLock(p) == pc[p] = "locked"
HoldsRLock(p) == pc[p] = "saving"

MarkLock_noReaders(p) ==
    /\ pc[p] = "idle"
    /\ \A q \in Procs \ {p} : ~HoldsLock(q)
    /\ \E txHash \in TrackerHashes :
          /\ local' = [local EXCEPT ![p] = [txHash |-> txHash, txHashes |-> {}]]
          /\ last' = [last EXCEPT !.op = "MarkTransactionProcessed",
                                  !.called = @ \cup {txHash}]
    /\ pc' = [pc EXCEPT ![p] = "locked"]
    /\ UNCHANGED <<now, uuid, chain, mledgers, common, store, records, tampered,
                   sync, hook>>

\* MarkTransactionProcessed(txHash) by the task p: t.mu.Lock(), which waits
\* until no task holds the mutex for writing or for reading
MarkLock(p) ==
    /\ pc[p] = "idle"
    /\ \A q \in Procs \ {p} : ~HoldsLock(q) /\ ~HoldsRLock(q)
    /\ \E txHash \in TrackerHashes :
          /\ local' = [local EXCEPT ![p] = [txHash |-> txHash, txHashes |-> {}]]
          /\ last' = [last EXCEPT !.op = "MarkTransactionProcessed",
                                  !.called = @ \cup {txHash}]
    /\ pc' = [pc EXCEPT ![p] = "locked"]
    /\ UNCHANGED <<now, uuid, chain, mledgers, common, store, records, tampered,
                   sync, hook>>

\* t.ProcessedTxs[txHash] = true and t.mu.Unlock()
MarkAdd(p) ==
    /\ pc[p] = "locked"
    /\ hook' = [hook EXCEPT !.ProcessedTxs = @ \cup {local[p].txHash}]
    /\ pc' = [pc EXCEPT ![p] = "added"]
    /\ UNCHANGED <<now, uuid, chain, mledgers, common, store, records, last, local,
                   tampered, sync>>

\* saveProcessedTxs: t.mu.RLock(), which waits while a task holds the mutex
\* for writing, and the keys of the map copied into txHashes
SaveRLock(p) ==
    /\ pc[p] = "added"
    /\ \A q \in Procs \ {p} : ~HoldsLock(q)
    /\ local' = [local EXCEPT ![p].txHashes = hook.ProcessedTxs]
    /\ pc' = [pc EXCEPT ![p] = "saving"]
    /\ UNCHANGED <<now, uuid, chain, mledgers, common, store, records, last,
                   tampered, sync, hook>>

\* os.WriteFile of txHashes, the deferred RUnlock, and the return of
\* MarkTransactionProcessed; saved tells whether the write succeeded
SaveWrite(p) ==
    /\ pc[p] = "saving"
    /\ \E saved \in BOOLEAN :
          /\ hook' = [hook EXCEPT !.file = IF saved THEN local[p].txHashes ELSE @]
          /\ last' = [last EXCEPT !.op = "saveProcessedTxs",
                                  !.returned = IF saved THEN @ \cup {local[p].txHash}
                                               ELSE @]
    /\ pc' = [pc EXCEPT ![p] = "idle"]
    /\ local' = [local EXCEPT ![p] = NoOp]
    /\ UNCHANGED <<now, uuid, chain, mledgers, common, store, records, tampered, sync>>

\* IsTransactionProcessed(txHash) by the task p: the lookup under RLock
QueryUnderRLock(p) ==
    /\ pc[p] = "idle"
    /\ \A q \in Procs \ {p} : ~HoldsLock(q)
    /\ \E txHash \in TrackerHashes :
          last' = [n |-> 0, op |-> "IsTransactionProcessed", txHash |-> txHash,
                   result |-> IsTransactionProcessed(hook, txHash),
                   called |-> last.called, returned |-> last.returned]
    /\ UNCHANGED <<now, uuid, chain, mledgers, common, store, records, pc, local,
                   tampered, sync, hook>>

NextTrackerRace ==
    \/ \E p \in Procs : MarkLock(p)
    \/ \E p \in Procs : MarkAdd(p)
    \/ \E p \in Procs : SaveRLock(p)
    \/ \E p \in Procs : SaveWrite(p)
    \/ \E p \in Procs : QueryUnderRLock(p)

SpecTrackerRace == TrackerInit /\ [][NextTrackerRace]_vars

\* ------------------------------------------------------- repeated events
\* an INSERT of a row of the drugs table, signed with the secret
HandleInsert(p) ==
    \E record \in HookRecords("drugs") :
       HandleRequest(p, [signature |-> hook.Secret, parses |-> TRUE, type |-> "INSERT",
                         table |-> "drugs", record |-> record])

\* two INSERT events, the tasks of which may overlap
NextReplay ==
    \/ HookTick
    \/ \E p \in Procs : HandleInsert(p)
    \/ \E p \in Procs : HookResolve(p)
    \/ \E p \in Procs : HookSnapshot(p)
    \/ \E p \in Procs : HookMark(p)
    \/ \E p \in Procs : HookBackoff(p)

SpecReplay == HookStart("secret", {}) /\ [][NextReplay]_vars

\* ------------------------------------------------ start, stop, force sync
\* the goroutine Start begins, the goroutine ForceSync begins, the caller of
\* Stop, and a task that accesses the bookkeeping under SyncLock
\* (GetSyncStatus, or the end of processRecord / processDelete)
LifeTasks == {"periodic", "forced", "stopper", "reader"}

LifeInit ==
    /\ now = 0
    /\ uuid = 0
    /\ chain = EmptyChain
    /\ mledgers = [m \in ManufacturerIDs |-> EmptyLedger]
    /\ common = EmptyLedger
    /\ store = EmptyStore
    /\ records = {}
    /\ last = NoOp
    /\ pc = [t \in LifeTasks |-> "idle"]
    /\ local = [t \in LifeTasks |-> NoOp]
    /\ tampered = 0
    /\ sync = NewSyncService
    /\ hook = NewWebhookHandler("secret")

Returns(op, err) == [n |-> 0, op |-> op, err |-> err]

\* Start: under SyncLock, the error while running, else IsRunning,
\* WaitGroup.Add(1) and the goroutine, which begins with a sync
Start ==
    /\ sync.SyncLock = ""
    /\ IF sync.IsRunning
       THEN /\ last' = Returns("Start", "sync service is already running")
            /\ UNCHANGED <<sync, pc>>
       ELSE /\ pc["periodic"] = "idle"
            /\ sync' = [sync EXCEPT !.IsRunning = TRUE, !.WaitGroup = @ + 1]
            /\ pc' = [pc EXCEPT !["periodic"] = "initial"]
            /\ last' = Returns("Start", "")
    /\ UNCHANGED <<now, uuid, chain, mledgers, common, store, records, local,
                   tampered, hook>>

\* performSync begins: the initial sync of the goroutine, or the sync of a
\* tick (case <-ticker.C)
PeriodicSync ==
    /\ pc["periodic"] \in {"initial", "selecting"}
    /\ pc' = [pc EXCEPT !["periodic"] = "syncing"]
    /\ UNCHANGED <<now, uuid, chain, mledgers, common, store, records, last, local,
                   tampered, sync, hook>>

\* case <-s.StopChan of the select: the goroutine returns, WaitGroup.Done()
PeriodicExit ==
    /\ pc["periodic"] = "selecting"
    /\ sync.StopChan = "closed"
    /\ pc' = [pc EXCEPT !["periodic"] = "idle"]
    /\ sync' = [sync EXCEPT !.WaitGroup = @ - 1]
    /\ UNCHANGED <<now, uuid, chain, mledgers, common, store, records, last, local,
                   tampered, hook>>

\* ForceSync: IsRunning is read without SyncLock; go s.performSync()
ForceSync ==
    /\ IF ~sync.IsRunning
       THEN /\ last' = Returns("ForceSync", "sync service is not running")
            /\ UNCHANGED pc
       ELSE /\ pc["forced"] = "idle"
            /\ pc' = [pc EXCEPT !["forced"] = "syncing"]
            /\ last' = Returns("ForceSync", "")
    /\ UNCHANGED <<now, uuid, chain, mledgers, common, store, records, local,
                   tampered, sync, hook>>

\* performSync over tables with nothing to pull: both outcomes are logged,
\* SyncStatusMap and LastSyncTime are set, and no lock is taken
CycleEnd(t) ==
    /\ pc[t] = "syncing"
    /\ LET none == [status |-> "success", records_received |-> 0]
       IN  sync' = [sync EXCEPT
                      !.SyncStatusMap = [x \in {"drugs", "shipments"} |-> now],
                      !.LastSyncTime = now,
                      !.logs = logSyncStatus(logSyncStatus(@, Tables[1], none, now),
                                             Tables[2], none, now)]
    /\ pc' = [pc EXCEPT ![t] = IF t = "periodic" THEN "selecting" ELSE "idle"]
    /\ UNCHANGED <<now, uuid, chain, mledgers, common, store, records, last, local,
                   tampered, hook>>

\* Stop up to WaitGroup.Wait(): under SyncLock, the error while not running,
\* else close(s.StopChan), which panics on a closed channel (the deferred
\* Unlock runs)
StopBegin ==
    /\ pc["stopper"] = "idle"
    /\ sync.SyncLock = ""
    /\ IF ~sync.IsRunning
       THEN /\ last' = Returns("Stop", "sync service is not running")
            /\ UNCHANGED <<sync, pc>>
       ELSE IF sync.StopChan = "closed"
       THEN /\ last' = Returns("Stop", "panic: close of closed channel")
            /\ pc' = [pc EXCEPT !["stopper"] = "panicked"]
            /\ UNCHANGED sync
       ELSE /\ sync' = [sync EXCEPT !.StopChan = "closed", !.SyncLock = "stopper"]
            /\ pc' = [pc EXCEPT !["stopper"] = "waiting"]
            /\ UNCHANGED last
    /\ UNCHANGED <<now, uuid, chain, mledgers, common, store, records, local,
                   tampered, hook>>

\* WaitGroup.Wait() returns; IsRunning = false, the deferred Unlock
StopEnd ==
    /\ pc["stopper"] = "waiting"
    /\ sync.WaitGroup = 0
    /\ sync' = [sync EXCEPT !.IsRunning = FALSE, !.SyncLock = ""]
    /\ pc' = [pc EXCEPT !["stopper"] = "idle"]
    /\ last' = Returns("Stop", "")
    /\ UNCHANGED <<now, uuid, chain, mledgers, common, store, records, local,
                   tampered, hook>>

\* SyncLock.Lock() of GetSyncStatus or of the end of processRecord /
\* processDelete
ReaderLock ==
    /\ pc["reader"] = "idle"
    /\ sync.SyncLock = ""
    /\ sync' = [sync EXCEPT !.SyncLock = "reader"]
    /\ pc' = [pc EXCEPT !["reader"] = "locked"]
    /\ UNCHANGED <<now, uuid, chain, mledgers, common, store, records, last, local,
                   tampered, hook>>

\* the access under the lock (GetSyncStatus reads IsRunning, LastSyncTime and
\* the map; the webhook task sets the entry of its table) and the Unlock
ReaderUnlock ==
    /\ pc["reader"] = "locked"
    /\ \E writes \in BOOLEAN, table \in {"drugs", "shipments"} :
          IF writes
          THEN /\ sync' = [sync EXCEPT !.SyncStatusMap[table] = now, !.SyncLock = ""]
               /\ UNCHANGED last
          ELSE /\ sync' = [sync EXCEPT !.SyncLock = ""]
               /\ last' = [n |-> 0, op |-> "GetSyncStatus",
                           is_running |-> sync.IsRunning,
                           last_sync |-> sync.LastSyncTime,
                           tables |-> sync.SyncStatusMap]
    /\ pc' = [pc EXCEPT !["reader"] = "idle"]
    /\ UNCHANGED <<now, uuid, chain, mledgers, common, store, records, local,
                   tampered, hook>>

NextLife ==
    \/ Start
    \/ PeriodicSync
    \/ PeriodicExit
    \/ ForceSync
    \/ \E t \in {"periodic", "forced"} : CycleEnd(t)
    \/ StopBegin
    \/ StopEnd
    \/ ReaderLock
    \/ ReaderUnlock

SpecLife == LifeInit /\ [][NextLife]_vars

\* ------------------------------------------------ SyncManufacturerLedger
\* the record the loop builds from a manufacturer's drug record:
\* VerificationHash is not set and keeps the zero value
SyncedDrugRecord(drug, manufacturerID) ==
    [drug_id |-> drug.drug_id, manufacturer_id |-> manufacturerID,
     status |-> drug.status, created_at |-> drug.created_at,
     current_status |-> drug.current_status, history |-> drug.history,
     verification_hash |-> NoHash]

\* DistributorID is not set and keeps the zero value
SyncedShipmentRecord(shipment, manufacturerID) ==
    [shipment_id |-> shipment.shipment_id, drug_id |-> shipment.drug_id,
     manufacturer_id |-> manufacturerID, distributor_id |-> "",
     status |-> shipment.status, created_at |-> shipment.created_at,
     current_status |-> shipment.current_status, history |-> shipment.history]

\* the loop over manufacturerLedger.Drugs from its k-th record on: the first
\* record of the common ledger with that id is replaced, and the record is
\* appended when there is none
RECURSIVE SyncDrugsFrom(_, _, _, _)
SyncDrugsFrom(drugs, commonDrugs, manufacturerID, k) ==
    IF k > Len(drugs) THEN commonDrugs
    ELSE LET i == FindDrug(commonDrugs, drugs[k].drug_id)
             rec == SyncedDrugRecord(drugs[k], manufacturerID)
         IN  SyncDrugsFrom(drugs,
                 IF i # 0 THEN [commonDrugs EXCEPT ![i] = rec]
                 ELSE Append(commonDrugs, rec),
                 manufacturerID, k + 1)

RECURSIVE SyncShipmentsFrom(_, _, _, _)
SyncShipmentsFrom(shipments, commonShipments, manufacturerID, k) ==
    IF k > Len(shipments) THEN commonShipments
    ELSE LET i == FindShipment(commonShipments, shipments[k].shipment_id)
             rec == SyncedShipmentRecord(shipments[k], manufacturerID)
         IN  SyncShipmentsFrom(shipments,
                 IF i # 0 THEN [commonShipments EXCEPT ![i] = rec]
                 ELSE Append(commonShipments, rec),
                 manufacturerID, k + 1)

\* the common ledger SyncManufacturerLedger saves
SyncedCommonLedger(ml, cl, manufacturerID) ==
    [cl EXCEPT !.drugs = SyncDrugsFrom(ml.drugs, @, manufacturerID, 1),
               !.shipments = SyncShipmentsFrom(ml.shipments, @, manufacturerID, 1)]

\* both ledgers are read and the common ledger is saved
SyncManufacturerLedger ==
    /\ \E m \in ManufacturerIDs :
          /\ common' = SyncedCommonLedger(mledgers[m], common, m)
          /\ last' = [n |-> last.n, op |-> "SyncManufacturerLedger",
                      args |-> [manufacturer_id |-> m], ok |-> TRUE, err |-> "",
                      before |-> common]
    /\ UNCHANGED <<now, uuid, chain, mledgers, store, records, pc, local, tampered, sync, hook>>

\* the manager's operations, the copy into the common ledger among them
NextCopy ==
    \/ Tick
    \/ CreateDrug
    \/ CreateShipment
    \/ UpdateShipmentStatus
    \/ RevertDrug
    \/ VerifyDrug
    \/ VerifyTransactionStep
    \/ SyncManufacturerLedger

SpecCopy == Init /\ [][NextCopy]_vars

\* ------------------------------------------------------ chain properties
\* blocks is a chain: heights count up from 1 and every block names the
\* tx_hash of the block before it
ChainLinked(blocks) ==
    /\ Len(blocks) > 0 =>
          /\ blocks[1].block_height = 1
          /\ blocks[1].previous_block_hash = NoHash
    /\ \A i \in 2..Len(blocks) :
          /\ blocks[i].block_height = blocks[i - 1].block_height + 1
          /\ blocks[i].previous_block_hash = blocks[i - 1].tx_hash

AllIdle == \A p \in Procs : pc[p] = "idle"

\* C1: in every state of the chain file, reached by appends that may
\* interleave, the first block has height 1 and an empty previous hash and
\* every later block has the height of its predecessor plus one and names
\* its predecessor's tx_hash.
C1_ChainIntegrity == ChainLinked(chain.blocks)

\* two appends overlapped and one block was overwritten
C1_Witness ==
    /\ AllIdle
    /\ uuid = 3
    /\ Len(chain.blocks) = 2
    /\ chain.blocks[1].tx_hash.uuid = 2
    /\ chain.blocks[2].tx_hash.uuid = 3

\* C2: the stored block_height equals the number of blocks, whatever the
\* interleaving of the appends.
C2_HeightIsLength == chain.block_height = Len(chain.blocks)

\* a late write replaced a longer chain by a shorter one
C2_Witness ==
    /\ AllIdle
    /\ uuid = 3
    /\ Len(chain.blocks) = 1
    /\ chain.blocks[1].tx_hash.uuid = 1
    /\ Len(store.blockchain_ledger) = 3

\* C3: the chain is append-only: an append that overlaps no other append
\* adds exactly one block at the end, and no step removes, reorders or
\* rewrites a stored block.
C3_AppendOnly ==
    [][ /\ \A i \in 1..Len(chain.blocks) :
              /\ i <= Len(chain'.blocks)
              /\ chain'.blocks[i] = chain.blocks[i]
        /\ \A p \in Procs :
              ( /\ pc[p] = "read" /\ pc'[p] = "idle" /\ chain' # chain
                /\ local[p].ledger = chain
                /\ \A q \in Procs \ {p} : pc[q] = "idle" )
              => /\ Len(chain'.blocks) = Len(chain.blocks) + 1
                 /\ chain'.blocks[Len(chain'.blocks)].tx_hash = local[p].txHash
      ]_vars

\* C4: checkConsistency reports consistent for the empty chain and for a
\* chain that only appends have touched; when some consecutive pair breaks
\* the height or the hash link it does not report consistent and it names
\* the index of the first broken pair.
BrokenAt(blocks, k) ==
    \/ blocks[k + 1].block_height # blocks[k].block_height + 1
    \/ blocks[k + 1].previous_block_hash # blocks[k].tx_hash

C4_ConsistencyCheck ==
    last.op = "RunConsistencyCheck" =>
        LET b == last.ledger.blocks
            broken == {k \in 1..(Len(b) - 1) : BrokenAt(b, k)}
        IN  /\ Len(b) = 0 => last.check.consistent
            /\ tampered = 0 => last.check.consistent
            /\ broken = {} => last.check.consistent /\ last.check.err = ""
            /\ broken # {} =>
                  /\ ~last.check.consistent
                  /\ last.check.err # ""
                  /\ last.check.index \in broken
                  /\ \A k \in broken : last.check.index <= k
                  /\ last.result.status # "consistent"

\* a chain with two broken pairs was checked and the first one reported
C4_Witness ==
    /\ last.op = "RunConsistencyCheck"
    /\ Len(last.ledger.blocks) = 3
    /\ BrokenAt(last.ledger.blocks, 1)
    /\ BrokenAt(last.ledger.blocks, 2)
    /\ last.check.index = 1
    /\ last.check.err = "block height sequence broken"

\* ----------------------------------------------------- manager properties
\* a manager operation has just returned success
Succeeded(op) == last' # last /\ last'.op = op /\ last'.ok

\* a is a prefix of b as far as status and timestamp go
HistoryKept(a, b) ==
    /\ Len(a) <= Len(b)
    /\ \A i \in 1..Len(a) :
          /\ b[i].status = a[i].status
          /\ b[i].timestamp = a[i].timestamp

\* every record of old is still at its place in new with its history kept
RecordsKept(old, new) ==
    \A i \in 1..Len(old) :
        /\ i <= Len(new)
        /\ HistoryKept(old[i].history, new[i].history)

\* the record of drugID went from its state in old to status with exactly
\* one history entry more, of that status
StatusAppended(old, new, drugID, status) ==
    LET i == FindDrug(old, drugID)
    IN  /\ i # 0
        /\ i <= Len(new)
        /\ new[i].drug_id = drugID
        /\ new[i].status = status
        /\ new[i].current_status = status
        /\ Len(new[i].history) = Len(old[i].history) + 1
        /\ HistoryKept(old[i].history, new[i].history)
        /\ new[i].history[Len(new[i].history)].status = status

\* the records of drugID are the same in old and new
DrugUntouched(old, new, drugID) ==
    /\ Len(new) = Len(old)
    /\ \A i \in 1..Len(old) : old[i].drug_id = drugID => new[i] = old[i]

DrugUpdates(ledger) ==
    Cardinality({i \in 1..Len(ledger.blocks) :
                    ledger.blocks[i].tx_data.tx_type = "drug_update"})

\* C5: validating a transaction that is stored in the chain and was never
\* modified returns true, at whatever time it is validated.
C5_ValidateUnmodified ==
    (last.op = "VerifyTransaction" /\ last.verdict.err = "" /\ tampered = 0)
        => last.verdict.valid

\* C6: across the Ledger Manager operations every drug and shipment record
\* of every manufacturer ledger and of the common ledger keeps its history:
\* the length never decreases and the status and timestamp of an entry
\* already written never change.
C6_HistoryAppendOnly ==
    [][ /\ \A m \in ManufacturerIDs :
              /\ RecordsKept(mledgers[m].drugs, mledgers'[m].drugs)
              /\ RecordsKept(mledgers[m].shipments, mledgers'[m].shipments)
        /\ RecordsKept(common.drugs, common'.drugs)
        /\ RecordsKept(common.shipments, common'.shipments)
      ]_vars

\* a drug went created, in_transit, delivered over two seconds and its
\* shipment created, delivered, in both ledgers
C6_Witness ==
    /\ last.op = "UpdateShipmentStatus"
    /\ last.ok
    /\ Len(common.drugs) = 1
    /\ Len(common.drugs[1].history) = 3
    /\ [i \in 1..3 |-> common.drugs[1].history[i].status]
          = <<"created", "in_transit", "delivered">>
    /\ common.drugs[1].history[1].timestamp = 0
    /\ common.drugs[1].history[3].timestamp = 1
    /\ Len(mledgers["M1"].drugs) = 1
    /\ Len(mledgers["M1"].drugs[1].history) = 3
    /\ Len(mledgers["M1"].shipments) = 1
    /\ Len(mledgers["M1"].shipments[1].history) = 2
    /\ Len(common.shipments) = 1
    /\ Len(common.shipments[1].history) = 2

\* C7: after a successful createShipment(S, D, M) shipment S is in M's
\* ledger and in the common ledger with status created, and drug D is
\* in_transit, with one in_transit history entry appended, in the
\* manufacturer ledger that holds D and in the common ledger.
C7_CreateShipment ==
    [][ Succeeded("CreateShipment") =>
          LET a == last'.args
              holder == store.drugs[a.drug_id].manufacturer_id
              im == FindShipment(mledgers'[a.manufacturer_id].shipments, a.shipment_id)
              ic == FindShipment(common'.shipments, a.shipment_id)
          IN  /\ im # 0
              /\ mledgers'[a.manufacturer_id].shipments[im].status = "created"
              /\ ic # 0
              /\ common'.shipments[ic].status = "created"
              /\ StatusAppended(mledgers[holder].drugs, mledgers'[holder].drugs,
                                a.drug_id, "in_transit")
              /\ StatusAppended(common.drugs, common'.drugs, a.drug_id, "in_transit")
      ]_vars

\* C8: a successful updateShipmentStatus(S, status) changes the drug of S
\* exactly when status is "delivered": then the drug is delivered in its
\* manufacturer ledger, in the common ledger and in the store and one
\* drug_update transaction is appended; for any other status the drug's
\* records in all ledgers, its store row and the number of drug_update
\* transactions stay as they were.
C8_DeliveredCascade ==
    [][ Succeeded("UpdateShipmentStatus") =>
          LET a == last'.args
              d == store.shipments[a.shipment_id].drug_id
              holder == store.drugs[d].manufacturer_id
          IN  IF a.status = "delivered"
              THEN /\ StatusAppended(mledgers[holder].drugs, mledgers'[holder].drugs,
                                     d, "delivered")
                   /\ StatusAppended(common.drugs, common'.drugs, d, "delivered")
                   /\ store'.drugs[d].status = "delivered"
                   /\ DrugUpdates(chain') = DrugUpdates(chain) + 1
              ELSE /\ \A m \in ManufacturerIDs :
                          DrugUntouched(mledgers[m].drugs, mledgers'[m].drugs, d)
                   /\ DrugUntouched(common.drugs, common'.drugs, d)
                   /\ store'.drugs[d] = store.drugs[d]
                   /\ DrugUpdates(chain') = DrugUpdates(chain)
      ]_vars

\* createDrug, createShipment and updateShipmentStatus(delivered) have each
\* run to their last store write, in that order, and nothing else wrote a
\* status update
DeliveredScenario ==
    /\ store.drugs["D1"] # NoRow
    /\ store.shipments["S1"] # NoRow
    /\ [i \in 1..Len(store.drug_status_updates) |->
           store.drug_status_updates[i].status]
          = <<"created", "in_transit", "delivered">>
    /\ [i \in 1..Len(store.shipment_status_updates) |->
           store.shipment_status_updates[i].status]
          = <<"created", "delivered">>

\* C9: after createDrug(D1, M1), createShipment(S1, D1) and
\* updateShipmentStatus(S1, "delivered") have succeeded, verifyDrug(D1)
\* returns true without error.
C9_VerifyAfterDelivery ==
    (last.op = "VerifyDrug" /\ last.args.drug_id = "D1" /\ DeliveredScenario
     /\ tampered = 0)
        => (last.verdict.err = "" /\ last.verdict.valid)

\* C10: after a successful revertDrug(D, reason) drug D is reverted with a
\* set reverted_at in its manufacturer ledger and in the common ledger, one
\* reverted history entry carrying the reason has been appended in both,
\* and the store row has status reverted.
C10_RevertDrug ==
    [][ Succeeded("RevertDrug") =>
          LET a == last'.args
              holder == store.drugs[a.drug_id].manufacturer_id
              im == FindDrug(mledgers'[holder].drugs, a.drug_id)
              ic == FindDrug(common'.drugs, a.drug_id)
              hm == mledgers'[holder].drugs[im].history
              hc == common'.drugs[ic].history
          IN  /\ StatusAppended(mledgers[holder].drugs, mledgers'[holder].drugs,
                                a.drug_id, "reverted")
              /\ mledgers'[holder].drugs[im].reverted_at # NoTime
              /\ hm[Len(hm)].details = <<"Drug reverted", a.reason>>
              /\ StatusAppended(common.drugs, common'.drugs, a.drug_id, "reverted")
              /\ hc[Len(hc)].details = <<"Drug reverted", a.reason>>
              /\ store'.drugs[a.drug_id].status = "reverted"
              /\ "reverted_at" \in DOMAIN common'.drugs[ic]
              /\ common'.drugs[ic].reverted_at # NoTime
      ]_vars

\* drugID has a row in the store and a record in the common ledger
PresentInBoth(drugID) ==
    store.drugs[drugID] # NoRow /\ FindDrug(common.drugs, drugID) # 0

\* C11: verifyDrug(D) returns an error only when D is absent from the store
\* or from the common ledger; when D is in both it returns a boolean, which
\* is false when the verification hashes differ.
C11_VerifyDrugErrors ==
    [][ (last' # last /\ last'.op = "VerifyDrug") =>
          LET d == last'.args.drug_id
              v == last'.verdict
          IN  /\ v.err # "" => ~PresentInBoth(d)
              /\ PresentInBoth(d) =>
                    /\ v.err = ""
                    /\ store.drugs[d].verification_hash
                         # common.drugs[FindDrug(common.drugs, d)].verification_hash
                       => ~v.valid
      ]_vars


\* the moves of a drug's status the life cycle allows; a write that repeats
\* the status is no move
AllowedMove(from, to) ==
    \/ to = from
    \/ from = "created" /\ to = "in_transit"
    \/ from = "in_transit" /\ to = "delivered"
    \/ from \notin {"delivered", "reverted"} /\ to = "reverted"

MovesAllowed(old, new) ==
    \A i \in 1..Len(old) :
        i <= Len(new) /\ new[i].drug_id = old[i].drug_id
            => AllowedMove(old[i].status, new[i].status)

\* C12: in the manufacturer ledgers and in the common ledger the status of a
\* drug record only moves created -> in_transit -> delivered, or from a state
\* other than delivered to reverted; a reverted drug keeps its status and a
\* delivered drug becomes neither reverted nor in_transit.
C12_StatusLifeCycle ==
    [][ /\ \A m \in ManufacturerIDs :
              MovesAllowed(mledgers[m].drugs, mledgers'[m].drugs)
        /\ MovesAllowed(common.drugs, common'.drugs)
      ]_vars

\* no two records of the sequence carry the same value in field key
UniqueBy(recs, key) ==
    \A i, j \in 1..Len(recs) : recs[i][key] = recs[j][key] => i = j

\* C13: no manufacturer ledger and not the common ledger holds two drug
\* records with one drug_id or two shipment records with one shipment_id;
\* createDrug or createShipment with an id already present adds no record.
C13_UniqueRecords ==
    /\ \A m \in ManufacturerIDs :
          /\ UniqueBy(mledgers[m].drugs, "drug_id")
          /\ UniqueBy(mledgers[m].shipments, "shipment_id")
    /\ UniqueBy(common.drugs, "drug_id")
    /\ UniqueBy(common.shipments, "shipment_id")

\* ------------------------------------------- properties of the ledger types
\* the records of the kind the last call was about, in the ledger it was on
Target(ml, cl, l) ==
    LET ledger == IF l.on = "manufacturer" THEN ml["M1"] ELSE cl
    IN  IF l.kind = "drug" THEN ledger.drugs ELSE ledger.shipments

IdOf(rec, kind) == IF kind = "drug" THEN rec.drug_id ELSE rec.shipment_id

Holds(recs, kind, id) == \E i \in 1..Len(recs) : IdOf(recs[i], kind) = id

LedgerCalled == last' # last /\ last'.n = last.n + 1

\* C14: on a manufacturer ledger and on the common ledger, adding a drug or
\* a shipment whose id is present returns an error, updating the status of
\* one whose id is absent returns an error, every call that returns an error
\* leaves both ledgers as they were, and every successful status update
\* appends exactly one Status entry to the record it names and leaves every
\* other record alone.
C14_LedgerMethods ==
    [][ LedgerCalled =>
          LET l == last'
              old == Target(mledgers, common, l)
              new == Target(mledgers', common', l)
              isAdd == l.op \in {"AddDrugRecord", "AddShipmentRecord"}
          IN  /\ isAdd /\ Holds(old, l.kind, l.id) => l.err # ""
              /\ isAdd /\ ~Holds(old, l.kind, l.id) =>
                    /\ l.err = ""
                    /\ Len(new) = Len(old) + 1
                    /\ IdOf(new[Len(new)], l.kind) = l.id
              /\ ~isAdd /\ ~Holds(old, l.kind, l.id) => l.err # ""
              /\ l.err # "" => mledgers' = mledgers /\ common' = common
              /\ ~isAdd /\ l.err = "" =>
                    /\ Len(new) = Len(old)
                    /\ \E i \in 1..Len(old) :
                          /\ IdOf(old[i], l.kind) = l.id
                          /\ Len(new[i].history) = Len(old[i].history) + 1
                          /\ SubSeq(new[i].history, 1, Len(old[i].history))
                                = old[i].history
                          /\ \A j \in (1..Len(old)) \ {i} : new[j] = old[j]
                    /\ l.on = "manufacturer" => common' = common
                    /\ l.on = "common" => mledgers' = mledgers
                    /\ l.kind = "drug" =>
                          /\ mledgers'["M1"].shipments = mledgers["M1"].shipments
                          /\ common'.shipments = common.shipments
                    /\ l.kind = "shipment" =>
                          /\ mledgers'["M1"].drugs = mledgers["M1"].drugs
                          /\ common'.drugs = common.drugs
      ]_vars

\* a drug was added, its status was updated once, and adding it again was
\* refused at a later time
C14_Witness ==
    /\ last.n = 3
    /\ last.op = "AddDrugRecord"
    /\ last.on = "manufacturer"
    /\ last.err # ""
    /\ Len(mledgers["M1"].drugs) = 1
    /\ Len(mledgers["M1"].drugs[1].history) = 2
    /\ mledgers["M1"].last_updated < now

\* --------------------------------------- properties of the order of writes
\* what a write changed, going from state a to state b: 1 the chain file,
\* 2 a manufacturer ledger, 3 the common ledger, 4 the store, 0 none of them
Place(a, b) ==
    IF b.store # a.store THEN 4
    ELSE IF b.common # a.common THEN 3
    ELSE IF b.mledgers # a.mledgers THEN 2
    ELSE IF b.chain # a.chain THEN 1
    ELSE 0

\* the place of the i-th write of the running operation
PlaceOfWrite(i) ==
    LET w == local["p1"].writes
    IN  Place(IF i = 1 THEN local["p1"].start ELSE w[i - 1].s, w[i].s)

\* C15: among the writes one manager operation has made so far, none to the
\* store comes before one to a ledger or to the chain, none to the common
\* ledger before one to a manufacturer ledger, none to a ledger before the
\* chain append.
C15_WriteOrder ==
    pc["p1"] = "running" =>
        \A i, j \in 1..local["p1"].k :
            (i < j /\ PlaceOfWrite(i) # 0 /\ PlaceOfWrite(j) # 0)
                => PlaceOfWrite(i) <= PlaceOfWrite(j)

\* the last operation lost a write after its chain append: the chain holds
\* its block and a ledger or the store lacks what the operation would have
\* written next
DanglingChecked ==
    /\ last.op = "ConsistencyCheck"
    /\ last.after.fault
    /\ last.after.writes >= 1

\* C16: when a manager operation fails after its chain append and before a
\* later ledger or store write, the consistency check that follows does not
\* report consistent: it reports an inconsistency.
C16_DanglingSurfaced ==
    DanglingChecked => last.result.status = "inconsistent"

\* C17: when some neighbouring blocks of the chain break the height or the
\* hash link and the store answers (the outcome is not failed),
\* RunConsistencyCheck returns the outcome inconsistent with a recommendation
\* and changes neither the chain nor the ledgers nor the store.
C17_BrokenLinkInconsistent ==
    [][ ( /\ last' # last
          /\ last'.op = "RunConsistencyCheck"
          /\ last'.result.status # "failed"
          /\ \E k \in 1..(Len(chain.blocks) - 1) : BrokenAt(chain.blocks, k) )
        => /\ last'.result.status = "inconsistent"
           /\ last'.result.recommendation # ""
           /\ UNCHANGED <<chain, mledgers, common, store, records>>
      ]_vars

\* the drug is missing from the store, from the ledger of manufacturer m or
\* from the common ledger
DrugAbsent(d, m) ==
    \/ store.drugs[d] = NoRow
    \/ FindDrug(mledgers[m].drugs, d) = 0
    \/ FindDrug(common.drugs, d) = 0

\* the shipment is missing from the store, from the ledger of the
\* manufacturer its row names or from the common ledger
ShipmentAbsent(sid) ==
    \/ store.shipments[sid] = NoRow
    \/ FindShipment(mledgers[store.shipments[sid].manufacturer_id].shipments, sid) = 0
    \/ FindShipment(common.shipments, sid) = 0

\* the target of the operation that makes this step is absent before it
TargetAbsent ==
    LET a == last'.args
    IN  CASE last'.op = "CreateShipment" -> DrugAbsent(a.drug_id, a.manufacturer_id)
          [] last'.op = "UpdateShipmentStatus" -> ShipmentAbsent(a.shipment_id)
          [] last'.op = "RevertDrug" ->
                \/ store.drugs[a.drug_id] = NoRow
                \/ DrugAbsent(a.drug_id, store.drugs[a.drug_id].manufacturer_id)
          [] OTHER -> FALSE

\* C18: createShipment, updateShipmentStatus and revertDrug return an error
\* when the drug or shipment they act on is absent from the manufacturer
\* ledger, the common ledger or the store; none of them returns success in
\* that case, and with the error both ledgers are as they were.
C18_AbsentTarget ==
    [][ ( /\ last' # last
          /\ last'.op \in {"CreateShipment", "UpdateShipmentStatus", "RevertDrug"}
          /\ TargetAbsent )
        => /\ ~last'.ok
           /\ mledgers' = mledgers
           /\ common' = common
      ]_vars

\* ------------------------------------------------ properties of the sync cycle
\* the row's chain-transaction id is missing, the empty string or "pending"
NeedsTransaction(row) ==
    \/ "blockchain_tx_id" \notin DOMAIN row
    \/ row.blockchain_tx_id \in {NoHash, Pending}

\* the blocks the step appended that carry the value id in field key
NewBlocksFor(key, id) ==
    {i \in (Len(chain.blocks) + 1)..Len(chain'.blocks) :
        /\ key \in DOMAIN chain'.blocks[i].tx_data
        /\ chain'.blocks[i].tx_data[key] = id}

\* the step is a sync cycle in which every Select answered
SyncedAll ==
    /\ last' # last
    /\ last'.op = "performSync"
    /\ last'.status.drugs = "success"
    /\ last'.status.shipments = "success"

\* C19: in a sync cycle over the drugs table a row gets a new chain
\* transaction, whose hash is written back to the row, exactly when its
\* chain-transaction id is missing, the empty string or "pending"; a row
\* with any other id causes no chain append and no store write.
C19_SyncDrugs ==
    [][ SyncedAll =>
          \A d \in PresentKeys(store.drugs) :
             IF NeedsTransaction(store.drugs[d])
             THEN \E i \in NewBlocksFor("drug_id", d) :
                     /\ NewBlocksFor("drug_id", d) = {i}
                     /\ store'.drugs[d].blockchain_tx_id = chain'.blocks[i].tx_hash
             ELSE /\ NewBlocksFor("drug_id", d) = {}
                  /\ store'.drugs[d] = store.drugs[d]
      ]_vars

\* C20: after a sync cycle in which every store and file operation
\* succeeds no row of drugs or shipments has a missing, empty or pending
\* chain-transaction id: for each such row of either table one block was
\* appended and its hash written back to the row.
C20_SyncBothTables ==
    [][ SyncedAll =>
          /\ \A d \in PresentKeys(store'.drugs) :
                ~NeedsTransaction(store'.drugs[d])
          /\ \A sid \in PresentKeys(store'.shipments) :
                ~NeedsTransaction(store'.shipments[sid])
          /\ \A sid \in PresentKeys(store.shipments) :
                NeedsTransaction(store.shipments[sid]) =>
                   \E i \in NewBlocksFor("shipment_id", sid) :
                      /\ NewBlocksFor("shipment_id", sid) = {i}
                      /\ store'.shipments[sid].blockchain_tx_id
                            = chain'.blocks[i].tx_hash
      ]_vars

TransactionsFor(d) ==
    {i \in 1..Len(store.blockchain_ledger) :
        /\ "drug_id" \in DOMAIN store.blockchain_ledger[i].tx_hash.data
        /\ store.blockchain_ledger[i].tx_hash.data.drug_id = d}

\* C22: when the cycle of ForceSync and the periodic cycle overlap, a row of
\* the drugs table gets no more than one chain transaction, the hash in the
\* row is the hash of a block of the chain, and every block appended is
\* still in the chain.
C22_ForceSyncSafe ==
    AllIdle =>
        /\ \A d \in PresentKeys(store.drugs) :
              /\ Cardinality(TransactionsFor(d)) <= 1
              /\ TransactionsFor(d) # {} =>
                    \E i \in 1..Len(chain.blocks) :
                       chain.blocks[i].tx_hash = store.drugs[d].blockchain_tx_id
        /\ \A i \in 1..Len(store.blockchain_ledger) :
              \E j \in 1..Len(chain.blocks) :
                 chain.blocks[j].tx_hash = store.blockchain_ledger[i].tx_hash

\* ---------------------------------------------------- webhook properties
\* a task was started by the step
Dispatched ==
    \E p \in Procs : pc[p] = "idle" /\ pc'[p] = "attempt"

\* C23: a request is answered by starting a task only if its signature is
\* not empty and equals the configured secret; a request with a missing,
\* empty or different signature is not answered 200 and changes neither the
\* chain, nor the snapshots, nor the tracker, nor the sync status, and starts
\* no task.
C23_SignatureChecked ==
    [][ (last' # last /\ last'.op = "HandleWebhook") =>
          /\ Dispatched => verifySignature(last'.signature, hook.Secret)
          /\ ~verifySignature(last'.signature, hook.Secret) =>
                /\ last'.code # 200
                /\ UNCHANGED <<chain, mledgers, common, store, records, hook, sync,
                               pc, local>>
      ]_vars

\* the snapshots of records of the table with that id
Snapshots(table, id) ==
    {f \in records : Len(f.name) = 3 /\ f.name[1] = table /\ f.name[2] = id}

\* the blocks of the chain for the drug
BlocksFor(d) ==
    {i \in 1..Len(chain.blocks) :
        /\ "drug_id" \in DOMAIN chain.blocks[i].tx_data
        /\ chain.blocks[i].tx_data.drug_id = d}

\* C24: after two INSERT events with the same payload have both been
\* processed, one following the other or the two overlapping, there is
\* exactly one snapshot of the record and no more than one chain transaction
\* for it (exactly one when the payload carried no transaction id).
C24_SameEventOnce ==
    ( /\ \A p \in Procs : pc[p] = "done" /\ local[p].outcome \in {"processed", "skipped"}
      /\ local["p1"].payload = local["p2"].payload
      /\ local["p1"].created + local["p2"].created > 0 )
    => /\ Cardinality(BlocksFor(local["p1"].payload.drug_id)) = 1
       /\ Cardinality(Snapshots("drugs", local["p1"].payload.drug_id)) = 1

\* the step is one of the task p
StepOf(p) == pc'[p] # pc[p] \/ local'[p] # local[p]

\* the tombstones in the directory
Tombstones == {f \in records : Len(f.name) = 4}

\* C25: a step of a task processing a DELETE event changes neither the chain,
\* nor a manufacturer ledger, nor the common ledger, nor the tracker; the
\* attempt that succeeds writes one file, the tombstone {deleted_at,
\* original_record} of the old record, and an attempt that fails writes none.
C25_DeleteTombstone ==
    [][ \A p \in Procs :
          (pc[p] # "idle" /\ local[p].kind = "delete" /\ StepOf(p)) =>
             /\ UNCHANGED <<chain, mledgers, common, hook>>
             /\ IF pc'[p] = "done" /\ local'[p].outcome = "processed"
                THEN \E f \in records' :
                        /\ f.name = <<local[p].table, RecordID(local[p].table, local[p].payload),
                                      now, "deleted">>
                        /\ f.content = [deleted_at |-> now,
                                        original_record |-> local[p].payload]
                        /\ records' \ {f} \subseteq records
                        /\ {g \in records : g.name # f.name} \subseteq records'
                ELSE records' = records
      ]_vars

C25_Witness ==
    /\ last.op = "processDeleteWithRetry"
    /\ last.outcome = "processed"
    /\ last.attempts = 2
    /\ Cardinality(Tombstones) = 1
    /\ \A f \in Tombstones : f.content.original_record = last.payload
    /\ chain = EmptyChain
    /\ hook.ProcessedTxs = {ForeignHash}

FailsValidation(table, record) ==
    \/ table \notin {"drugs", "shipments"}
    \/ IDField(table) \notin DOMAIN record
    \/ table = "drugs" /\ ~(DrugRequiredFields \subseteq DOMAIN record)

\* C27: the task of an INSERT or UPDATE event that fails validation returns
\* after one attempt without having slept, and it has appended no block and
\* written no snapshot.
C27_ValidationNotRetried ==
    \A p \in Procs :
       ( /\ pc[p] = "done"
         /\ local[p].kind = "record"
         /\ FailsValidation(local[p].table, local[p].payload) )
       => /\ local[p].i = 0
          /\ local[p].slept = <<>>
          /\ chain = EmptyChain
          /\ {f \in records : Len(f.name) = 3} = {}

\* C28: a hash is reported processed only if MarkTransactionProcessed was
\* called with it; a call of MarkTransactionProcessed and a query remove no
\* hash from the set in memory, and the hash of the call is in it
\* afterwards; when the call returns no error the file holds the set in
\* memory, the hash included; a tracker created anew from the directory
\* reports exactly the hashes of the file, which are all the hashes marked
\* before when the last call returned no error, and in any case include
\* every hash whose call returned no error.
C28_Tracker ==
    /\ [](/\ hook.ProcessedTxs \subseteq last.called
          /\ last.returned \subseteq hook.file
          /\ hook.file \subseteq last.called
          /\ last.op = "IsTransactionProcessed" =>
                (last.result <=> last.txHash \in hook.ProcessedTxs))
    /\ [][ /\ last'.op # "NewTransactionTracker" =>
                hook.ProcessedTxs \subseteq hook'.ProcessedTxs
           /\ last'.op = "MarkTransactionProcessed" =>
                /\ last'.txHash \in hook'.ProcessedTxs
                /\ ~last'.err =>
                      (last'.txHash \in hook'.file /\ hook'.file = hook'.ProcessedTxs)
           /\ last'.op = "NewTransactionTracker" =>
                /\ hook'.ProcessedTxs = hook.file
                /\ hook.file = hook.ProcessedTxs => hook'.ProcessedTxs = hook.ProcessedTxs
       ]_vars

C28_Witness ==
    /\ last.op = "NewTransactionTracker"
    /\ Cardinality(last.returned) = 2
    /\ last.called = last.returned
    /\ hook.ProcessedTxs = last.called

\* the record carries a transaction id other than "" and "pending"
CarriesID(record) ==
    /\ "blockchain_tx_id" \in DOMAIN record
    /\ record.blockchain_tx_id \notin {NoHash, Pending}

\* C29: a step of a task processing an INSERT or UPDATE event appends to the
\* chain only if the record carries no transaction id, or "" or "pending";
\* for a record carrying another id no step of the task changes the chain,
\* the hash of an attempt that got past the id of the record is that id, and
\* the snapshot written carries it.
C29_ReusesID ==
    [][ \A p \in Procs :
          (pc[p] # "idle" /\ local[p].kind = "record" /\ StepOf(p)) =>
             /\ chain' # chain => ~CarriesID(local[p].payload)
             /\ CarriesID(local[p].payload) =>
                   /\ chain' = chain
                   /\ (pc'[p] \in {"resolved", "written", "done"}
                          /\ local'[p].outcome # "dropped") =>
                         local'[p].txHash = local[p].payload.blockchain_tx_id
                   /\ pc'[p] = "written" =>
                         \E f \in records' :
                            /\ f.name = <<local[p].table,
                                          RecordID(local[p].table, local[p].payload), now>>
                            /\ f.content.blockchain_tx_id = local[p].payload.blockchain_tx_id
                            /\ records' \ {f} \subseteq records
      ]_vars

C29_Witness ==
    /\ pc["p1"] = "done"
    /\ local["p1"].kind = "record"
    /\ local["p1"].outcome = "processed"
    /\ CarriesID(local["p1"].payload)
    /\ chain = EmptyChain
    /\ \E f \in records : Len(f.name) = 3 /\ f.content.blockchain_tx_id = ForeignHash
    /\ ForeignHash \in hook.ProcessedTxs

\* C30: an attempt whose hash the tracker holds writes no snapshot, changes
\* neither the tracker nor the sync status, and returns; an attempt whose
\* hash the tracker does not hold either fails in writing, leaving the files
\* and the tracker as they were, or writes one file, the snapshot carrying
\* the hash, and only in the following step of the task, the snapshot being
\* there, is the hash marked, after which the tracker reports it processed.
C30_TrackerGate ==
    [][ \A p \in Procs :
          /\ (pc[p] = "resolved" /\ StepOf(p)) =>
                IF IsTransactionProcessed(hook, local[p].txHash)
                THEN /\ records' = records
                     /\ hook' = hook
                     /\ sync' = sync
                     /\ pc'[p] = "done"
                ELSE IF pc'[p] = "written"
                THEN \E f \in records' :
                        /\ f.name = <<local[p].table,
                                      RecordID(local[p].table, local[p].payload), now>>
                        /\ "blockchain_tx_id" \in DOMAIN f.content
                        /\ f.content.blockchain_tx_id = local[p].txHash
                        /\ local[p].txHash \notin {NoHash, Pending}
                        /\ records' \ {f} \subseteq records
                        /\ hook' = hook
                ELSE /\ pc'[p] = "failed"
                     /\ records' = records
                     /\ hook' = hook
          /\ (pc[p] = "written" /\ StepOf(p)) =>
                /\ \E f \in records :
                      /\ "blockchain_tx_id" \in DOMAIN f.content
                      /\ f.content.blockchain_tx_id = local[p].txHash
                /\ records' = records
                /\ IsTransactionProcessed(hook', local[p].txHash)
                /\ pc'[p] = "done"
      ]_vars

\* C31: under every interleaving of the calls of two tasks, a hash a task
\* has added stays in the set in memory; a query answers by the set in
\* memory; every hash whose MarkTransactionProcessed returned no error is in
\* the file, whatever save is written later; and when no call is under way
\* and no call has failed, the file holds the set in memory.
C31_TrackerConcurrent ==
    /\ [](/\ \A p \in Procs :
                pc[p] \in {"added", "saving"} => local[p].txHash \in hook.ProcessedTxs
          /\ last.returned \subseteq hook.file
          /\ last.returned \subseteq hook.ProcessedTxs
          /\ last.op = "IsTransactionProcessed" =>
                (last.result <=> last.txHash \in hook.ProcessedTxs)
          /\ ((\A p \in Procs : pc[p] = "idle") /\ last.called = last.returned) =>
                hook.file = hook.ProcessedTxs)
    /\ [][hook.ProcessedTxs \subseteq hook'.ProcessedTxs]_vars

\* two saves under way at once, after the marks of two hashes
C31_Witness ==
    /\ pc["p1"] = "saving"
    /\ pc["p2"] = "saving"
    /\ local["p1"].txHash # local["p2"].txHash
    /\ last.returned # {}
    /\ Cardinality(hook.ProcessedTxs) = 3

\* the hashes of the blocks of a ledger
HashesOf(ledger) == {ledger.blocks[i].tx_hash : i \in 1..Len(ledger.blocks)}

\* C32: the write of an append replaces the chain by the chain the append
\* read plus its own block; so when two appends have read the same chain and
\* one has written its block, the write of the other succeeds as well, at
\* the same height, and leaves a chain of the same length that holds the
\* block of the second and no longer the block of the first.
C32_LostAppend ==
    [][ \A p \in Procs :
          (pc[p] = "read" /\ pc'[p] = "idle" /\ chain' # chain) =>
             /\ chain' = AppendBlock(local[p].ledger, local[p].txData, local[p].txHash, now)
             /\ \A h \in HashesOf(chain) \ HashesOf(local[p].ledger) :
                   h \notin HashesOf(chain')
             /\ ( /\ Len(chain.blocks) = Len(local[p].ledger.blocks) + 1
                  /\ SubSeq(chain.blocks, 1, Len(local[p].ledger.blocks))
                        = local[p].ledger.blocks ) =>
                   /\ chain'.block_height = chain.block_height
                   /\ Len(chain'.blocks) = Len(chain.blocks)
                   /\ HashesOf(chain') \ HashesOf(chain) = {local[p].txHash}
      ]_vars

\* two appends have returned success at the same height and the chain holds
\* the block of one of them
C32_Witness ==
    /\ \A p \in Procs : pc[p] = "idle"
    /\ uuid = 2
    /\ Len(chain.blocks) = 1
    /\ Len(store.blockchain_ledger) = 2
    /\ store.blockchain_ledger[1].block_height = store.blockchain_ledger[2].block_height
    /\ store.blockchain_ledger[1].tx_hash # store.blockchain_ledger[2].tx_hash
    /\ chain.blocks[1].tx_hash = store.blockchain_ledger[2].tx_hash

\* -------------------------------------------------- lifecycle properties
\* C33: when Stop returns without error the periodic task has exited and no
\* sync cycle is running, and while the service is stopped no sync cycle is
\* running.
C33_StopJoins ==
    /\ [][ (pc["stopper"] = "waiting" /\ pc'["stopper"] = "idle") =>
             /\ pc'["periodic"] = "idle"
             /\ pc'["forced"] # "syncing"
       ]_vars
    /\ []((~sync.IsRunning /\ pc["stopper"] = "idle") =>
             \A t \in {"periodic", "forced"} : pc[t] # "syncing")

\* C34: Start returns an error only while the service is running and Stop
\* only while it is not; outside Start and Stop, IsRunning tells whether the
\* periodic task is alive; and no Stop closes a closed channel.
C34_Restartable ==
    /\ [][ /\ (last' # last /\ last'.op = "Start" /\ last'.err # "") => sync.IsRunning
           /\ (last' # last /\ last'.op = "Stop" /\ last'.err # "") => ~sync.IsRunning
       ]_vars
    /\ [](pc["stopper"] = "idle" => (sync.IsRunning <=> pc["periodic"] # "idle"))
    /\ [](pc["stopper"] # "panicked")

\* C35: a sync cycle sets SyncStatusMap and LastSyncTime holding SyncLock,
\* and so does every other step that changes them.
C35_BookkeepingLocked ==
    [][ /\ \A t \in {"periodic", "forced"} :
              (pc[t] = "syncing" /\ pc'[t] # "syncing") => sync.SyncLock = t
        /\ ( \/ sync'.SyncStatusMap # sync.SyncStatusMap
             \/ sync'.LastSyncTime # sync.LastSyncTime ) => sync.SyncLock # ""
      ]_vars

\* ------------------------------------------------------ mirrored ledgers
\* the record of drugID in ledger l, as far as the two ledger types share it
DrugView(l, drugID) ==
    LET i == FindDrug(l.drugs, drugID)
    IN  IF i = 0 THEN [present |-> FALSE]
        ELSE [present |-> TRUE, current_status |-> l.drugs[i].current_status,
              entries |-> Len(l.drugs[i].history)]

ShipmentView(l, shipmentID) ==
    LET i == FindShipment(l.shipments, shipmentID)
    IN  IF i = 0 THEN [present |-> FALSE]
        ELSE [present |-> TRUE, current_status |-> l.shipments[i].current_status,
              entries |-> Len(l.shipments[i].history)]

\* every record a manufacturer ledger holds looks the same in the common
\* ledger, and every record of the common ledger is in a manufacturer ledger
Mirrored(ml, cl) ==
    /\ \A m \in ManufacturerIDs, d \in DrugIDs :
          DrugView(ml[m], d).present => DrugView(ml[m], d) = DrugView(cl, d)
    /\ \A m \in ManufacturerIDs, sh \in ShipmentIDs :
          ShipmentView(ml[m], sh).present =>
             ShipmentView(ml[m], sh) = ShipmentView(cl, sh)
    /\ \A d \in DrugIDs :
          DrugView(cl, d).present =>
             \E m \in ManufacturerIDs : DrugView(ml[m], d).present
    /\ \A sh \in ShipmentIDs :
          ShipmentView(cl, sh).present =>
             \E m \in ManufacturerIDs : ShipmentView(ml[m], sh).present

\* C36: after every Ledger Manager operation that returns success, each drug
\* and each shipment a manufacturer ledger holds has the same current status
\* and the same number of history entries there as in the common ledger, and
\* a record is in the common ledger exactly when a manufacturer ledger holds
\* it.
C36_LedgersMirror ==
    [][ (\E op \in ManagerOps : Succeeded(op)) => Mirrored(mledgers', common') ]_vars

\* ------------------------------------------------------- status fields
\* the three places a record keeps its status in agree
StatusAgrees(rec) ==
    /\ rec.status = rec.current_status
    /\ Len(rec.history) > 0
    /\ rec.history[Len(rec.history)].status = rec.current_status

LedgerStatusAgrees(l) ==
    /\ \A i \in 1..Len(l.drugs) : StatusAgrees(l.drugs[i])
    /\ \A i \in 1..Len(l.shipments) : StatusAgrees(l.shipments[i])

\* C37: in every drug and shipment record of every manufacturer ledger and
\* of the common ledger, status equals current_status and both equal the
\* status of the last history entry.
C37_StatusFieldsAgree ==
    /\ \A m \in ManufacturerIDs : LedgerStatusAgrees(mledgers[m])
    /\ LedgerStatusAgrees(common)

\* ------------------------------------------------- attempts of one event
\* the task p is working on an event or has finished one
HasEvent(p) == pc[p] \in {"attempt", "resolved", "written", "failed", "done"}

\* all attempts of an event append one block at most, and an attempt made
\* after the block was appended takes the hash of that block
C38_OneBlock ==
    /\ [](\A p \in Procs : (HasEvent(p) /\ local[p].kind = "record") =>
              /\ local[p].created <= 1
              /\ Len(chain.blocks) <= 1)
    /\ [][ \A p \in Procs :
             (pc[p] = "attempt" /\ local[p].kind = "record"
                 /\ local[p].created = 1 /\ pc'[p] # pc[p]) =>
                /\ chain' = chain
                /\ uuid' = uuid
                /\ pc'[p] = "resolved"
                /\ local'[p].txHash = chain.blocks[1].tx_hash
       ]_vars

\* no attempt on a complete record that carries no transaction id reports
\* success for a snapshot without hash
C38_NoBareSnapshot ==
    [][ \A p \in Procs :
          (pc[p] = "written" /\ pc'[p] = "done" /\ local[p].kind = "record"
              /\ ValidTransaction(local[p].table, local[p].payload)
              /\ local'[p].outcome = "processed") =>
             \E f \in records :
                /\ "blockchain_tx_id" \in DOMAIN f.content
                /\ f.content.blockchain_tx_id = local[p].txHash
                /\ local[p].txHash \notin {NoHash, Pending}
      ]_vars

\* C38: the attempts of one INSERT/UPDATE event append one chain block at
\* most; an attempt made after the chain transaction was created reuses its
\* hash and appends nothing; and an attempt in which creating the chain
\* transaction fails does not report success for a snapshot without a hash.
C38_RetriesOneBlock == C38_OneBlock /\ C38_NoBareSnapshot

\* ------------------------------------------------- copy into the common ledger
\* what SyncManufacturerLedger has to keep of the record old in its place
\* of the new list
KeptDrug(old, new, i) ==
    /\ i <= Len(new)
    /\ new[i].drug_id = old[i].drug_id
    /\ new[i].verification_hash = old[i].verification_hash
    /\ Len(new[i].history) >= Len(old[i].history)

KeptShipment(old, new, i) ==
    /\ i <= Len(new)
    /\ new[i].shipment_id = old[i].shipment_id
    /\ new[i].distributor_id = old[i].distributor_id
    /\ Len(new[i].history) >= Len(old[i].history)

\* C39: SyncManufacturerLedger leaves the verification_hash of every drug
\* and the distributor_id of every shipment the common ledger holds as they
\* were, makes no history shorter, and run once more on the result it
\* changes nothing.
C39_CopyPreserves ==
    [][ (last' # last /\ last'.op = "SyncManufacturerLedger") =>
          /\ \A i \in 1..Len(common.drugs) : KeptDrug(common.drugs, common'.drugs, i)
          /\ \A i \in 1..Len(common.shipments) :
                KeptShipment(common.shipments, common'.shipments, i)
          /\ SyncedCommonLedger(mledgers[last'.args.manufacturer_id], common',
                                last'.args.manufacturer_id) = common'
      ]_vars

\* ------------------------------------------------- one transaction per row
\* C40: over any number of sync cycles, one following the other, the chain
\* holds one transaction at most for each row of the drugs table, whether
\* the writes of the hash into the row succeeded or not.
C40_OnePerRow ==
    \A d \in SyncDrugIDs :
        Cardinality({i \in 1..Len(chain.blocks) :
                        chain.blocks[i].tx_data.drug_id = d}) <= 1

====
